---- MODULE Spec2Model ----
(***************************************************************************)
(* Model of the policy ensemble arbitration (rasa/core/policies/ensemble.py)*)
(* and of the Domain merge / specification comparison (rasa/core/domain.py).*)
(*                                                                         *)
(* Probabilities are integers in halves: 0 = 0.0, 1 = 0.5, 2 = 1.0.        *)
(* Python's 0-based list indices are kept: IndexForAction returns 0..n-1,  *)
(* and a Python list l is the TLA+ sequence with l[i] at position i+1.     *)
(***************************************************************************)
EXTENDS Integers, Sequences, FiniteSets, TLC

VARIABLES
    policies,          \* PolicyEnsemble.policies: sequence of [cls, priority]
    held,              \* held[i]: the probability list policy i keeps internally
    events,            \* tracker.events, the append-only event log
    raw,               \* what each policy returned in the last call (before zeroing)
    arbitration,       \* result and best_policy_name after the loop, before the override
    result,            \* first component returned by the last call (<<>> is None)
    best_policy_name,  \* second component returned by the last call
    calls,             \* calls made on the current tracker state
    objects,           \* the Domain objects of a merge run: fragments and merge results
    live,              \* the Domain a model directory is compared with
    persisted,         \* domain.json of the model directory
    comparison,        \* outcome of the last compare_with_specification
    trained,           \* the trained PolicyEnsemble in memory: its policies
    model_dir,         \* a model directory: metadata.json and the policy directories
    loaded,            \* outcome of the last PolicyEnsemble.load(path)
    persists,          \* number of times the model directory was written
    compatibility,     \* a call of ensure_model_compatibility: arguments and outcome
    policy_configuration,  \* the dict handed to PolicyEnsemble.from_dict
    parsed,            \* outcome of PolicyEnsemble.from_dict
    construction,      \* the arguments of a call of Domain(...)
    constructed,       \* the Domain that call built, or the exception it raised
    yml_templates,     \* the 'responses' section handed to collect_templates
    collected,         \* outcome of collect_templates
    domain_intents,    \* Domain.intent_properties of the Domain that featurizes
    tracker,           \* the tracker: latest message, slots, latest action, active form
    active_states,     \* the keys of the dict get_active_states returned last
    eval_store,        \* an EvaluationStore that is filled and serialised
    serialised,        \* what its serialise() returned last
    evaluation,        \* collect_story_predictions: its flags and how far it is
    story_eval_store,  \* the EvaluationStore of all stories
    tracker_eval_store,  \* the EvaluationStore of the tracker being predicted
    partial_tracker,   \* the events put on the partial tracker of that tracker
    failure,           \* the exception the evaluation left with, if any
    replay_ensemble,   \* the class of each policy of the processor's ensemble
    replay_fail,       \* fail_on_prediction_errors of the replay
    replay_tracker,    \* the partial tracker: events, latest action, active form
    collecting,        \* the frame of _collect_action_executed_predictions
    schema_domain,     \* a constructed Domain whose state schema is read
    state_lookup,      \* what index_of_state and num_states returned last
    merge_call,        \* the arguments of a call self.merge(other, override)
    merge_result,      \* the Domain that call returned, or that it raised
    training_trackers, \* the events of each tracker the ensemble was trained on
    action_fingerprints  \* metadata["action_fingerprints"] as _persist_metadata wrote it

ensembleVars ==
    <<policies, held, events, raw, arbitration, result, best_policy_name, calls>>

compareVars == <<live, persisted, comparison>>

persistVars == <<trained, model_dir, loaded, persists, compatibility>>

configVars == <<policy_configuration, parsed>>

sanityVars == <<construction, constructed>>

templateVars == <<yml_templates, collected>>

featurizeVars == <<domain_intents, tracker, active_states>>

storeVars == <<eval_store, serialised>>

evaluateVars ==
    <<evaluation, story_eval_store, tracker_eval_store, partial_tracker, failure>>

replayVars == <<replay_ensemble, replay_fail, replay_tracker, collecting>>

schemaVars == <<schema_domain, state_lookup>>

winnerVars == <<merge_call, merge_result>>
fingerprintVars == <<training_trackers, action_fingerprints>>

vars == <<ensembleVars, objects, compareVars, persistVars, configVars, sanityVars, templateVars, featurizeVars, storeVars, evaluateVars, replayVars, schemaVars, winnerVars, fingerprintVars>>

\* what the actions of one specification leave alone
outsideEnsemble ==
    <<objects, compareVars, persistVars, configVars, sanityVars, templateVars,
      featurizeVars, storeVars, evaluateVars, replayVars, schemaVars, winnerVars, fingerprintVars>>
outsideMerge ==
    <<ensembleVars, compareVars, persistVars, configVars, sanityVars, templateVars,
      featurizeVars, storeVars, evaluateVars, replayVars, schemaVars, winnerVars, fingerprintVars>>
outsideCompare ==
    <<ensembleVars, objects, persistVars, configVars, sanityVars, templateVars,
      featurizeVars, storeVars, evaluateVars, replayVars, schemaVars, winnerVars, fingerprintVars>>
outsidePersist ==
    <<ensembleVars, objects, compareVars, configVars, sanityVars, templateVars,
      featurizeVars, storeVars, evaluateVars, replayVars, schemaVars, winnerVars, fingerprintVars>>
outsideConfig ==
    <<ensembleVars, objects, compareVars, persistVars, sanityVars, templateVars,
      featurizeVars, storeVars, evaluateVars, replayVars, schemaVars, winnerVars, fingerprintVars>>
outsideSanity ==
    <<ensembleVars, objects, compareVars, persistVars, configVars, templateVars,
      featurizeVars, storeVars, evaluateVars, replayVars, schemaVars, winnerVars, fingerprintVars>>
outsideTemplates ==
    <<ensembleVars, objects, compareVars, persistVars, configVars, sanityVars,
      featurizeVars, storeVars, evaluateVars, replayVars, schemaVars, winnerVars, fingerprintVars>>
outsideFeaturize ==
    <<ensembleVars, objects, compareVars, persistVars, configVars, sanityVars,
      templateVars, storeVars, evaluateVars, replayVars, schemaVars, winnerVars, fingerprintVars>>
outsideStore ==
    <<ensembleVars, objects, compareVars, persistVars, configVars, sanityVars,
      templateVars, featurizeVars, evaluateVars, replayVars, schemaVars, winnerVars, fingerprintVars>>
outsideEvaluate ==
    <<ensembleVars, objects, compareVars, persistVars, configVars, sanityVars,
      templateVars, featurizeVars, storeVars, replayVars, schemaVars, winnerVars, fingerprintVars>>
outsideReplay ==
    <<ensembleVars, objects, compareVars, persistVars, configVars, sanityVars,
      templateVars, featurizeVars, storeVars, evaluateVars, schemaVars, winnerVars, fingerprintVars>>
outsideSchema ==
    <<ensembleVars, objects, compareVars, persistVars, configVars, sanityVars,
      templateVars, featurizeVars, storeVars, evaluateVars, replayVars, winnerVars, fingerprintVars>>
outsideWinner ==
    <<ensembleVars, objects, compareVars, persistVars, configVars, sanityVars,
      templateVars, featurizeVars, storeVars, evaluateVars, replayVars, schemaVars, fingerprintVars>>
outsideFingerprint ==
    <<ensembleVars, objects, compareVars, persistVars, configVars, sanityVars,
      templateVars, featurizeVars, storeVars, evaluateVars, replayVars, schemaVars, winnerVars>>

(***************************************************************************)
(* Bounds                                                                  *)
(***************************************************************************)
MaxPolicies == 2
MaxEvents == 2
MaxCalls == 2
MaxPersists == 2
MaxStoreLen == 2
MaxStories == 2
MaxStoryEvents == 2
MaxReplayEvents == 2
MaxTrainingTrackers == 2
MaxTrainingEvents == 3

(***************************************************************************)
(* Domain of the serving side: default actions first, then user actions.   *)
(***************************************************************************)
ACTION_LISTEN_NAME == "action_listen"
FALLBACK_ACTION_NAME == "action_default_fallback"

ServingActionNames == <<ACTION_LISTEN_NAME, FALLBACK_ACTION_NAME, "utter_greet">>

RECURSIVE ListIndex(_, _, _)
\* Python list.index: 0-based position of the first occurrence, -1 when absent
ListIndex(l, x, from) ==
    IF from > Len(l) THEN -1
    ELSE IF l[from] = x THEN from - 1
    ELSE ListIndex(l, x, from + 1)

IndexForAction(action_names, action_name) == ListIndex(action_names, action_name, 1)

(***************************************************************************)
(* Policies                                                                *)
(***************************************************************************)
MemoizationPolicyName == "MemoizationPolicy"
AugmentedMemoizationPolicyName == "AugmentedMemoizationPolicy"
FallbackPolicyName == "FallbackPolicy"

\* A class derived from MemoizationPolicy under another name, and an ML policy.
PolicyClasses ==
    {MemoizationPolicyName, AugmentedMemoizationPolicyName, "RecallPolicy",
     "KerasPolicy", FallbackPolicyName}

\* the base classes of each policy class (itself included)
ClassBases(cls) ==
    CASE cls = AugmentedMemoizationPolicyName ->
             {AugmentedMemoizationPolicyName, MemoizationPolicyName}
      [] cls = "RecallPolicy" -> {"RecallPolicy", MemoizationPolicyName}
      [] OTHER -> {cls}

IsInstance(p, base) == base \in ClassBases(p.cls)

Priorities == {1, 2}

Policy == [cls : PolicyClasses, priority : Priorities]

\* what predict_action_probabilities may hold: a distribution over the actions
\* that sums to 1, or all zeros (no prediction)
Distributions ==
    {d \in [1..Len(ServingActionNames) -> 0..2] : d[1] + d[2] + d[3] \in {0, 2}}

\* FallbackPolicy.fallback_scores(domain): all mass on the fallback action
FallbackScores(action_names) ==
    [i \in 1..Len(action_names) |->
        IF i - 1 = IndexForAction(action_names, FALLBACK_ACTION_NAME) THEN 2 ELSE 0]

(***************************************************************************)
(* Tracker                                                                 *)
(***************************************************************************)
ActionExecuted(a) == [type |-> "action", action_name |-> a]
UserUttered == [type |-> "user", action_name |-> ""]
ActionExecutionRejected(a) == [type |-> "rejected", action_name |-> a]

\* action_listen is built in and never rejects its execution
Events ==
    {ActionExecuted(ACTION_LISTEN_NAME), ActionExecuted("utter_greet"), UserUttered,
     ActionExecutionRejected(FALLBACK_ACTION_NAME),
     ActionExecutionRejected("utter_greet")}

RECURSIVE LatestActionName(_)
\* tracker.latest_action_name: the name of the last executed action
LatestActionName(evs) ==
    IF evs = <<>> THEN "None"
    ELSE IF evs[Len(evs)].type = "action" THEN evs[Len(evs)].action_name
    ELSE LatestActionName(SubSeq(evs, 1, Len(evs) - 1))

LastIsRejection(evs) == Len(evs) > 0 /\ evs[Len(evs)].type = "rejected"

(***************************************************************************)
(* SimplePolicyEnsemble                                                    *)
(***************************************************************************)
EndsWith(s, suffix) ==
    Len(s) >= Len(suffix) /\ SubSeq(s, Len(s) - Len(suffix) + 1, Len(s)) = suffix

PolicyName(i, p) == "policy_" \o ToString(i) \o "_" \o p.cls

is_not_memo_policy_Unnegated(name) ==
    EndsWith(name, "_" \o MemoizationPolicyName)
        \/ EndsWith(name, "_" \o AugmentedMemoizationPolicyName)

is_not_memo_policy(name) ==
    LET is_memo == EndsWith(name, "_" \o MemoizationPolicyName)
        is_augmented == EndsWith(name, "_" \o AugmentedMemoizationPolicyName)
    IN ~(is_memo \/ is_augmented)

SeqMax(l) == CHOOSE m \in {l[i] : i \in 1..Len(l)} : \A i \in 1..Len(l) : l[i] <= m

ZeroRejected_OnlyFirstCall(probabilities, evs, action_names) ==
    IF LastIsRejection(evs) /\ calls = 0
    THEN [probabilities EXCEPT
             ![IndexForAction(action_names, evs[Len(evs)].action_name) + 1] = 0]
    ELSE probabilities

\* the list a policy's output becomes in the loop body
ZeroRejected(probabilities, evs, action_names) ==
    IF LastIsRejection(evs)
    THEN [probabilities EXCEPT
             ![IndexForAction(action_names, evs[Len(evs)].action_name) + 1] = 0]
    ELSE probabilities

TupleGreater_OrEqual(c1, p1, c2, p2) == c1 > c2 \/ (c1 = c2 /\ p1 >= p2)

\* Python's tuple comparison (c1, p1) > (c2, p2)
TupleGreater(c1, p1, c2, p2) == c1 > c2 \/ (c1 = c2 /\ p1 > p2)

RECURSIVE BestAfter(_, _, _)
\* the running best after the first k iterations of the loop over the policies
BestAfter(ps, probs, k) ==
    IF k = 0
    THEN [result |-> <<>>, max_confidence |-> -1,
          best_policy_name |-> "None", best_policy_priority |-> -1]
    ELSE LET prev == BestAfter(ps, probs, k - 1)
             confidence == SeqMax(probs[k])
         IN IF TupleGreater(confidence, ps[k].priority,
                            prev.max_confidence, prev.best_policy_priority)
            THEN [result |-> probs[k], max_confidence |-> confidence,
                  best_policy_name |-> PolicyName(k - 1, ps[k]),
                  best_policy_priority |-> ps[k].priority]
            ELSE prev

\* indices (1-based) of the policies that are FallbackPolicy instances
FallbackIdxPolicy(ps) == {i \in 1..Len(ps) : IsInstance(ps[i], FallbackPolicyName)}

SetMin(S) == CHOOSE m \in S : \A x \in S : m <= x

OverrideCondition(best, evs, action_names) ==
    /\ best.result # <<>>
    /\ ListIndex(best.result, best.max_confidence, 1)
           = IndexForAction(action_names, ACTION_LISTEN_NAME)
    /\ LatestActionName(evs) = ACTION_LISTEN_NAME
    /\ is_not_memo_policy(best.best_policy_name)

\* the pair returned by probabilities_using_best_policy, given the lists the
\* policies returned
BestPolicyPrediction(ps, outputs, evs, action_names) ==
    LET probs == [i \in 1..Len(ps) |-> ZeroRejected(outputs[i], evs, action_names)]
        best == BestAfter(ps, probs, Len(ps))
        winner == [result |-> best.result, best_policy_name |-> best.best_policy_name]
    IN IF OverrideCondition(best, evs, action_names) /\ FallbackIdxPolicy(ps) # {}
       THEN LET f == SetMin(FallbackIdxPolicy(ps))
            IN [result |-> FallbackScores(action_names),
                best_policy_name |-> PolicyName(f - 1, ps[f]),
                arbitration |-> winner]
       ELSE [result |-> best.result, best_policy_name |-> best.best_policy_name,
             arbitration |-> winner]

(***************************************************************************)
(* Domain (rasa/core/domain.py)                                            *)
(*                                                                         *)
(* A dict whose iteration order is observable (intent_properties) is a     *)
(* sequence of [name, props] in insertion order; a dict that is only       *)
(* looked up or compared (templates, slot definitions) is a function.      *)
(***************************************************************************)
Range(l) == {l[i] : i \in 1..Len(l)}

\* the names of the model in Python's string order
SortedNames ==
    <<"action_default_fallback", "action_listen", "action_search", "book",
      "city", "greet", "time", "utter_greet">>

\* sorted(list(set(...)))
SortSet(S) == SelectSeq(SortedNames, LAMBDA x : x \in S)

\* action.default_action_names(), abbreviated
DefaultActionNames == <<ACTION_LISTEN_NAME, FALLBACK_ACTION_NAME>>

\* action.combine_with_templates
CombineWithTemplates(actions, templates) ==
    actions \o SelectSeq(SortSet(DOMAIN templates), LAMBDA a : a \notin Range(actions))

\* action.combine_user_with_default_actions
CombineUserWithDefaultActions(user_actions) ==
    DefaultActionNames
        \o SelectSeq(user_actions, LAMBDA a : a \notin Range(DefaultActionNames))

\* get_duplicates(my_items) is not empty
HasDuplicates(l) == \E i, j \in 1..Len(l) : i < j /\ l[i] = l[j]

DefaultSessionConfig == [session_expiration_time |-> 0, carry_over_slots |-> TRUE]

EmptyMap == [k \in {} |-> <<>>]

\* Domain.slots: the slot definitions sorted by name
CollectSlots(slot_dict) ==
    LET names == SortSet(DOMAIN slot_dict)
    IN [i \in 1..Len(names) |-> [name |-> names[i], info |-> slot_dict[names[i]]]]

\* collect_intent_properties raises for a repeated intent name
IntentsNotUnique(intents) ==
    \E i, j \in 1..Len(intents) : i < j /\ intents[i].name = intents[j].name

\* the object Domain.__init__ builds; ok is FALSE when it raises InvalidDomain
DomainInit(intents, entities, slot_dict, templates, action_names, form_names, store_entities_as_slots, session_config) ==
    LET user_actions == CombineWithTemplates(action_names, templates)
        all_actions == CombineUserWithDefaultActions(user_actions) \o form_names
        slots == CollectSlots(slot_dict)
    IN [ok |-> /\ ~IntentsNotUnique(intents)
               /\ ~HasDuplicates(all_actions)
               /\ ~HasDuplicates([i \in 1..Len(slots) |-> slots[i].name])
               /\ ~HasDuplicates(entities),
        intent_properties |-> intents,
        entities |-> entities,
        form_names |-> form_names,
        slots |-> slots,
        templates |-> templates,
        session_config |-> session_config,
        user_actions |-> user_actions,
        action_names |-> all_actions,
        store_entities_as_slots |-> store_entities_as_slots]

\* Domain.empty()
EmptyDomain ==
    DomainInit(<<>>, <<>>, EmptyMap, EmptyMap, <<>>, <<>>, TRUE, DefaultSessionConfig)

SlotDefinitions(d) ==
    [n \in {d.slots[i].name : i \in 1..Len(d.slots)} |->
        (CHOOSE s \in Range(d.slots) : s.name = n).info]

AsDict(d) ==
    [config |-> [store_entities_as_slots |-> d.store_entities_as_slots],
     session_config |-> d.session_config,
     intents |-> d.intent_properties,
     entities |-> d.entities,
     slots |-> SlotDefinitions(d),
     responses |-> d.templates,
     actions |-> d.user_actions,
     forms |-> d.form_names]

FromDict(data) ==
    DomainInit(data.intents, data.entities, data.slots, data.responses,
               data.actions, data.forms, data.config.store_entities_as_slots,
               data.session_config)

\* a.update(b) on insertion-ordered dicts
OrderedUpdate(a, b) ==
    LET replaced == [i \in 1..Len(a) |->
                        IF \E j \in 1..Len(b) : b[j].name = a[i].name
                        THEN CHOOSE e \in Range(b) : e.name = a[i].name
                        ELSE a[i]]
        added == SelectSeq(b, LAMBDA e : \A i \in 1..Len(a) : a[i].name # e.name)
    IN replaced \o added

\* merge_dicts on insertion-ordered dicts
MergeDicts(d1, d2, override_existing_values) ==
    IF override_existing_values THEN OrderedUpdate(d1, d2) ELSE OrderedUpdate(d2, d1)

MapUpdate(a, b) ==
    [k \in (DOMAIN a) \cup (DOMAIN b) |-> IF k \in DOMAIN b THEN b[k] ELSE a[k]]

\* merge_dicts on dicts that are only looked up
MergeMaps(d1, d2, override_existing_values) ==
    IF override_existing_values THEN MapUpdate(d1, d2) ELSE MapUpdate(d2, d1)

MergeLists(l1, l2) == SortSet(Range(l1) \cup Range(l2))

\* list.remove(x): drops the first occurrence
ListRemove(l, x) ==
    LET i == ListIndex(l, x, 1) + 1
    IN SubSeq(l, 1, i - 1) \o SubSeq(l, i + 1, Len(l))

RECURSIVE RemoveForms(_, _, _)
\* the loop "remove existing forms from new actions" from its k-th form on
RemoveForms(forms, actions, k) ==
    IF k > Len(forms) THEN actions
    ELSE IF forms[k] \in Range(actions)
         THEN RemoveForms(forms, ListRemove(actions, forms[k]), k + 1)
         ELSE RemoveForms(forms, actions, k + 1)

\* self.merge(domain, override): the returned Domain (ok FALSE when from_dict
\* raises InvalidDomain) and the user_actions list of the argument afterwards,
\* which as_dict hands out by reference and the loop edits in place
Merge(self, domain, override) ==
    LET domain_dict == AsDict(domain)
        combined == AsDict(self)
        config == IF override THEN domain_dict.config ELSE combined.config
        session_config ==
            IF override \/ self.session_config = DefaultSessionConfig
            THEN domain_dict.session_config ELSE combined.session_config
        merged_intents == MergeDicts(combined.intents, domain_dict.intents, override)
        new_actions == RemoveForms(combined.forms, domain_dict.actions, 1)
    IN [returned |->
            FromDict([config |-> config,
                      session_config |-> session_config,
                      intents |-> merged_intents,
                      entities |-> MergeLists(combined.entities, domain_dict.entities),
                      actions |-> MergeLists(combined.actions, new_actions),
                      forms |-> MergeLists(combined.forms, domain_dict.forms),
                      responses |->
                          MergeMaps(combined.responses, domain_dict.responses, override),
                      slots |-> MergeMaps(combined.slots, domain_dict.slots, override)]),
        argument_user_actions |-> new_actions]

(***************************************************************************)
(* State schema                                                            *)
(***************************************************************************)
RECURSIVE SlotStates(_, _)
SlotStates(slots, k) ==
    IF k > Len(slots) THEN <<>>
    ELSE [i \in 1..slots[k].info.dims |->
             "slot_" \o slots[k].name \o "_" \o ToString(i - 1)]
         \o SlotStates(slots, k + 1)

Intents(d) == SortSet({d.intent_properties[i].name : i \in 1..Len(d.intent_properties)})

InputStates(d) ==
    [i \in 1..Len(Intents(d)) |-> "intent_" \o Intents(d)[i]]
    \o [i \in 1..Len(d.entities) |-> "entity_" \o d.entities[i]]
    \o SlotStates(d.slots, 1)
    \o [i \in 1..Len(d.action_names) |-> "prev_" \o d.action_names[i]]
    \o [i \in 1..Len(d.form_names) |-> "active_form_" \o d.form_names[i]]

\* the document persist_specification writes to domain.json
SpecificationDocument(d) == [states |-> InputStates(d)]

CompareWithSpecificationResult_Subset(d, loaded_domain_spec) ==
    LET states == loaded_domain_spec.states
    IN IF ~(Range(states) \subseteq Range(InputStates(d)))
       THEN [status |-> "InvalidDomain",
             removed |-> Range(states) \ Range(InputStates(d)),
             added |-> Range(InputStates(d)) \ Range(states)]
       ELSE [status |-> "True", removed |-> {}, added |-> {}]

\* compare_with_specification on the loaded document
CompareWithSpecificationResult(d, loaded_domain_spec) ==
    LET states == loaded_domain_spec.states
    IN IF Range(states) # Range(InputStates(d))
       THEN [status |-> "InvalidDomain",
             removed |-> Range(states) \ Range(InputStates(d)),
             added |-> Range(InputStates(d)) \ Range(states)]
       ELSE [status |-> "True", removed |-> {}, added |-> {}]

(***************************************************************************)
(* Merging domain fragments                                                *)
(***************************************************************************)
Fragments == {"A", "B", "C"}

\* the merges a run may compute: target |-> <<self, argument>>
MergeOperands ==
    [AB |-> <<"A", "B">>, BA |-> <<"B", "A">>, BC |-> <<"B", "C">>,
     AB_C |-> <<"AB", "C">>, A_BC |-> <<"A", "BC">>, AB_B |-> <<"AB", "B">>]

MergeTargets == DOMAIN MergeOperands

ObjectIds == Fragments \cup MergeTargets

\* what distinguishes the fragment files: the entities, the properties of
\* the intent greet, the session configuration and the config of each
FragmentEntities(f) ==
    CASE f = "A" -> <<"city">> [] f = "B" -> <<>> [] OTHER -> <<"city", "time">>

FragmentGreet(f) ==
    [name |-> "greet",
     props |->
        CASE f = "A" -> [use_all |-> TRUE, use_entities |-> <<>>, ignore_entities |-> <<>>]
          [] f = "B" -> [use_all |-> FALSE, use_entities |-> <<"city">>,
                         ignore_entities |-> <<>>]
          [] OTHER -> [use_all |-> TRUE, use_entities |-> <<>>,
                       ignore_entities |-> <<"city">>]]

FragmentSession(f) ==
    CASE f = "A" -> [session_expiration_time |-> 30, carry_over_slots |-> TRUE]
      [] f = "B" -> [session_expiration_time |-> 60, carry_over_slots |-> FALSE]
      [] OTHER -> [session_expiration_time |-> 90, carry_over_slots |-> TRUE]

FragmentTemplates(f) ==
    IF f = "B" THEN [k \in {"utter_greet"} |-> <<[text |-> "hello"]>>] ELSE EmptyMap

FragmentSlots(f) ==
    IF f = "C" THEN [k \in {"city"} |-> [type |-> "categorical", dims |-> 2]]
    ELSE IF f = "A" THEN [k \in {"city"} |-> [type |-> "text", dims |-> 1]]
    ELSE EmptyMap

\* the domains fragment f may be: every choice that Domain.__init__ accepts
FragmentDomains(f) ==
    {d \in {DomainInit(IF has_greet THEN <<FragmentGreet(f)>> ELSE <<>>,
                       FragmentEntities(f), FragmentSlots(f), FragmentTemplates(f),
                       actions, forms, f # "B",
                       IF has_session THEN FragmentSession(f)
                       ELSE DefaultSessionConfig) :
               has_greet \in BOOLEAN, has_session \in BOOLEAN,
               actions \in {<<>>, <<"book">>, <<"book", "action_search">>},
               forms \in {<<>>, <<"book">>}} : d.ok}

(***************************************************************************)
(* Persisting and loading the ensemble (rasa/core/policies/ensemble.py)    *)
(***************************************************************************)
\* the module that defines each policy class
ModuleOf(cls) ==
    CASE cls \in {MemoizationPolicyName, AugmentedMemoizationPolicyName} ->
             "rasa.core.policies.memoization"
      [] cls = FallbackPolicyName -> "rasa.core.policies.fallback"
      [] cls = "KerasPolicy" -> "rasa.core.policies.keras_policy"
      [] OTHER -> "addons.recall"

\* utils.module_path_from_instance(p)
ModulePathFromInstance(p) == ModuleOf(p.cls) \o "." \o p.cls

\* the policy classes rasa.core.policies.registry lists by name
RegistryPolicies == PolicyClasses \ {"RecallPolicy"}

RECURSIVE LastDot(_, _)
\* the position of the last "." among the first k characters of s, 0 if none
LastDot(s, k) ==
    IF k = 0 THEN 0 ELSE IF SubSeq(s, k, k) = "." THEN k ELSE LastDot(s, k - 1)

\* registry.policy_from_module_path(module_path): the class found under the
\* path, "ImportError" when there is none
PolicyFromModulePath(module_path) ==
    LET dot == LastDot(module_path, Len(module_path))
        module_name == SubSeq(module_path, 1, dot - 1)
        class_name == SubSeq(module_path, dot + 1, Len(module_path))
    IN IF dot = 0
       THEN IF module_path \in RegistryPolicies THEN module_path ELSE "ImportError"
       ELSE IF class_name \in PolicyClasses /\ ModuleOf(class_name) = module_name
       THEN class_name ELSE "ImportError"

\* dir_name in persist: "policy_{}_{}".format(i, type(policy).__name__)
PersistDirName(i, policy) == "policy_" \o ToString(i) \o "_" \o policy.cls

LoadDirName_NextIndex(i, policy_cls) == "policy_" \o ToString(i + 1) \o "_" \o policy_cls

\* dir_name in load: f"policy_{i}_{policy_cls.__name__}"
LoadDirName(i, policy_cls) == "policy_" \o ToString(i) \o "_" \o policy_cls

\* policy.persist(policy_path): the directory holds what the policy needs to
\* be restored, replacing what was there
PolicyPersist(dirs, policy_path, policy) ==
    {d \in dirs : d.name # policy_path}
        \cup {[name |-> policy_path, cls |-> policy.cls, priority |-> policy.priority]}

NonePolicy == [cls |-> "None", priority |-> 0]

\* policy_cls.load(policy_path): None when the directory holds nothing
PolicyLoad(dirs, policy_cls, policy_path) ==
    IF \E d \in dirs : d.name = policy_path
    THEN LET d == CHOOSE e \in dirs : e.name = policy_path
         IN [cls |-> d.cls, priority |-> d.priority]
    ELSE NonePolicy

\* _ensure_loaded_policy raises
LoadedPolicyMalformed(policy, policy_cls) ==
    policy = NonePolicy \/ ~IsInstance(policy, policy_cls)

RECURSIVE PersistPolicies(_, _, _)
\* the loop of persist over the first k policies
PersistPolicies(dirs, ps, k) ==
    IF k = 0 THEN dirs
    ELSE PolicyPersist(PersistPolicies(dirs, ps, k - 1),
                       PersistDirName(k - 1, ps[k]), ps[k])

(***************************************************************************)
(* Versions (packaging.version)                                            *)
(***************************************************************************)
DigitChars == <<"0", "1", "2", "3", "4", "5", "6", "7", "8", "9">>

IsDigit(c) == \E i \in 1..10 : DigitChars[i] = c

DigitValue(c) == (CHOOSE i \in 1..10 : DigitChars[i] = c) - 1

RECURSIVE NumberAt(_, _, _)
\* the decimal number written in s from position k on
NumberAt(s, k, acc) ==
    IF k > Len(s) \/ ~IsDigit(SubSeq(s, k, k)) THEN acc
    ELSE NumberAt(s, k + 1, acc * 10 + DigitValue(SubSeq(s, k, k)))

FinalRelease == <<3, 0>>

\* the pre-release part: a < b < rc < final release
PreRelease(t) ==
    IF t = "" THEN FinalRelease
    ELSE IF SubSeq(t, 1, 2) = "rc" THEN <<2, NumberAt(t, 3, 0)>>
    ELSE IF SubSeq(t, 1, 1) = "b" THEN <<1, NumberAt(t, 2, 0)>>
    ELSE <<0, NumberAt(t, 2, 0)>>

RECURSIVE ScanVersion(_, _, _, _)
ScanVersion(s, k, cur, rel) ==
    IF k > Len(s) THEN [release |-> Append(rel, cur), pre |-> FinalRelease]
    ELSE LET c == SubSeq(s, k, k)
         IN IF IsDigit(c) THEN ScanVersion(s, k + 1, cur * 10 + DigitValue(c), rel)
            ELSE IF c = "." THEN ScanVersion(s, k + 1, 0, Append(rel, cur))
            ELSE [release |-> Append(rel, cur),
                  pre |-> PreRelease(SubSeq(s, k, Len(s)))]

RECURSIVE StripZeros(_)
\* the release without its trailing zeros
StripZeros(rel) ==
    IF rel # <<>> /\ rel[Len(rel)] = 0
    THEN StripZeros(SubSeq(rel, 1, Len(rel) - 1)) ELSE rel

\* version.parse(s), as the key versions are ordered by
ParseVersion(s) ==
    LET v == ScanVersion(s, 1, 0, <<>>)
    IN [release |-> StripZeros(v.release), pre |-> v.pre]

RECURSIVE TupleLess(_, _)
\* a < b on tuples of integers
TupleLess(a, b) ==
    IF b = <<>> THEN FALSE
    ELSE IF a = <<>> THEN TRUE
    ELSE IF a[1] # b[1] THEN a[1] < b[1]
    ELSE TupleLess(Tail(a), Tail(b))

VersionLess_OrEqual(v1, v2) ==
    \/ TupleLess(ParseVersion(v1).release, ParseVersion(v2).release)
    \/ ParseVersion(v1).release = ParseVersion(v2).release

\* version.parse(v1) < version.parse(v2)
VersionLess(v1, v2) ==
    \/ TupleLess(ParseVersion(v1).release, ParseVersion(v2).release)
    \/ /\ ParseVersion(v1).release = ParseVersion(v2).release
       /\ TupleLess(ParseVersion(v1).pre, ParseVersion(v2).pre)

MINIMUM_COMPATIBLE_VERSION == "1.10.0"

Absent == "absent"

\* what ensure_model_compatibility(metadata, version_to_check) does: the
\* exception it raises with its arguments, or "ok"
EnsureModelCompatibility(metadata_rasa, version_to_check_arg) ==
    LET version_to_check ==
            IF version_to_check_arg = "None" THEN MINIMUM_COMPATIBLE_VERSION
            ELSE version_to_check_arg
        model_version == IF metadata_rasa = Absent THEN "0.0.0" ELSE metadata_rasa
    IN IF VersionLess(model_version, version_to_check)
       THEN [status |-> "UnsupportedDialogueModelError",
             model_version |-> model_version,
             minimal_compatible_version |-> version_to_check]
       ELSE [status |-> "ok", model_version |-> "", minimal_compatible_version |-> ""]

\* the versions a model directory may have been written by
ModelVersions ==
    {"0.14.5", "1.9.6", "1.10", "1.10.0", "1.10.0a2", "1.10.0rc1", "1.10.1", "2.0.0"}

\* the versions of the running instance that persists a model
InstanceVersions == {"1.10.0", "1.10.1", "2.0.0"}

NoMetadata == [exists |-> FALSE, policy_names |-> <<>>, rasa |-> Absent]

NoModel == [metadata |-> NoMetadata, dirs |-> {}, written_by |-> <<>>]

NotLoaded ==
    [status |-> "none", policies |-> <<>>, read_dirs |-> <<>>, steps |-> <<>>,
     model_version |-> "", minimal_compatible_version |-> ""]

NotChecked ==
    [metadata_rasa |-> Absent, version_to_check |-> "None", done |-> FALSE,
     status |-> "none", model_version |-> "", minimal_compatible_version |-> ""]

\* PolicyEnsemble.persist(path) by an instance of the given version
Persist(dir, ps, instance_version) ==
    [metadata |-> [exists |-> TRUE,
                   policy_names |-> [i \in 1..Len(ps) |-> ModulePathFromInstance(ps[i])],
                   rasa |-> instance_version],
     dirs |-> PersistPolicies(dir.dirs, ps, Len(ps)),
     written_by |-> ps]

\* one step of load: what was called, and for which index of policy_names
Step(op, index) == [op |-> op, index |-> index]

RECURSIVE LoadPolicies(_, _)
\* the loop of load over the first k policy names: the policies restored,
\* the directories read and the steps taken, in order; failed when a name
\* did not resolve or a restored policy was malformed
LoadPolicies(dir, k) ==
    IF k = 0 THEN [failed |-> FALSE, policies |-> <<>>, read_dirs |-> <<>>, steps |-> <<>>]
    ELSE LET prev == LoadPolicies(dir, k - 1)
             policy_cls == PolicyFromModulePath(dir.metadata.policy_names[k])
             dir_name == LoadDirName(k - 1, policy_cls)
             policy == PolicyLoad(dir.dirs, policy_cls, dir_name)
             resolved == Append(prev.steps, Step("policy_from_module_path", k - 1))
             restored == resolved \o <<Step("load", k - 1), Step("_ensure_loaded_policy", k - 1)>>
         IN IF prev.failed THEN prev
            ELSE IF policy_cls = "ImportError"
            THEN [failed |-> TRUE, policies |-> prev.policies,
                  read_dirs |-> prev.read_dirs, steps |-> resolved]
            ELSE IF LoadedPolicyMalformed(policy, policy_cls)
            THEN [failed |-> TRUE, policies |-> prev.policies,
                  read_dirs |-> Append(prev.read_dirs, dir_name), steps |-> restored]
            ELSE [failed |-> FALSE, policies |-> Append(prev.policies, policy),
                  read_dirs |-> Append(prev.read_dirs, dir_name), steps |-> restored]

\* this variant restores the policies first and checks the version last
Load_GuardLast(dir) ==
    LET compatible == EnsureModelCompatibility(dir.metadata.rasa, "None")
        restored == LoadPolicies(dir, Len(dir.metadata.policy_names))
        guarded == Append(restored.steps, Step("ensure_model_compatibility", -1))
    IN IF restored.failed
       THEN [status |-> "Exception",
             policies |-> restored.policies, read_dirs |-> restored.read_dirs,
             steps |-> restored.steps,
             model_version |-> "", minimal_compatible_version |-> ""]
       ELSE IF compatible.status # "ok"
       THEN [status |-> compatible.status, policies |-> <<>>,
             read_dirs |-> restored.read_dirs, steps |-> guarded,
             model_version |-> compatible.model_version,
             minimal_compatible_version |-> compatible.minimal_compatible_version]
       ELSE [status |-> "ok",
             policies |-> restored.policies, read_dirs |-> restored.read_dirs,
             steps |-> Append(guarded, Step("ensemble_cls", -1)),
             model_version |-> "", minimal_compatible_version |-> ""]

\* PolicyEnsemble.load(path)
Load(dir) ==
    LET compatible == EnsureModelCompatibility(dir.metadata.rasa, "None")
        restored == LoadPolicies(dir, Len(dir.metadata.policy_names))
        guarded == <<Step("ensure_model_compatibility", -1)>>
    IN IF compatible.status # "ok"
       THEN [status |-> compatible.status, policies |-> <<>>, read_dirs |-> <<>>,
             steps |-> guarded,
             model_version |-> compatible.model_version,
             minimal_compatible_version |-> compatible.minimal_compatible_version]
       ELSE [status |-> IF restored.failed THEN "Exception" ELSE "ok",
             policies |-> restored.policies, read_dirs |-> restored.read_dirs,
             steps |-> IF restored.failed THEN guarded \o restored.steps
                       ELSE guarded \o restored.steps \o <<Step("ensemble_cls", -1)>>,
             model_version |-> "", minimal_compatible_version |-> ""]

(***************************************************************************)
(* Policy configuration (PolicyEnsemble.from_dict)                         *)
(***************************************************************************)
\* the value under a key of the configuration: a list, or the key is absent
KeyAbsent == [present |-> FALSE, list |-> <<>>]

Listed(l) == [present |-> TRUE, list |-> l]

\* registry.featurizer_from_module_path(name): the class, or "ImportError"
FeaturizerFromModulePath(name) ==
    IF name \in {"MaxHistoryTrackerFeaturizer", "BinarySingleStateFeaturizer"}
    THEN name ELSE "ImportError"

\* the 'state_featurizer' lists of a featurizer configuration
StateFeaturizerConfigs ==
    {<<>>, <<[name |-> "BinarySingleStateFeaturizer"]>>,
     <<[name |-> "NoSuchStateFeaturizer"]>>,
     <<[name |-> "BinarySingleStateFeaturizer"], [name |-> "BinarySingleStateFeaturizer"]>>}

FeaturizerConfig ==
    [name : {"MaxHistoryTrackerFeaturizer", "NoSuchFeaturizer"},
     state_featurizer : StateFeaturizerConfigs]

\* the 'featurizer' lists of a policy entry
FeaturizerConfigs ==
    {<<>>} \cup {<<f>> : f \in FeaturizerConfig}
        \cup {<<[name |-> "MaxHistoryTrackerFeaturizer", state_featurizer |-> <<>>],
                [name |-> "MaxHistoryTrackerFeaturizer", state_featurizer |-> <<>>]>>}

PolicyEntry ==
    [name : {MemoizationPolicyName, "addons.recall.RecallPolicy", "NoSuchPolicy"},
     featurizer : FeaturizerConfigs]

PlainEntry(name) == [name |-> name, featurizer |-> <<>>]

\* the lists under 'policies'
PolicyLists ==
    {<<>>} \cup {<<e>> : e \in PolicyEntry}
        \cup {<<a, e>> : a \in {PlainEntry("KerasPolicy"), PlainEntry("NoSuchPolicy")},
                         e \in PolicyEntry}

PolicyConfigurations ==
    [policies : {KeyAbsent} \cup {Listed(l) : l \in PolicyLists},
     policy : {KeyAbsent, Listed(<<>>), Listed(<<PlainEntry(FallbackPolicyName)>>)}]

\* d.get(key): None, written KeyAbsent, for an absent key
DictGet(d, key) == IF key = "policies" THEN d.policies ELSE d.policy

\* a or b: b when a is None or an empty list
PyOr(a, b) == IF ~a.present \/ a.list = <<>> THEN b ELSE a

NoFeaturizer == [cls |-> "None", state_featurizer |-> "None"]

\* what the featurizer part of one policy entry does: the exception raised, or
\* the featurizer object built
BuildFeaturizer(policy) ==
    IF policy.featurizer = <<>> THEN [status |-> "ok", featurizer |-> NoFeaturizer]
    ELSE IF Len(policy.featurizer) > 1
    THEN [status |-> "InvalidPolicyConfig", featurizer |-> NoFeaturizer]
    ELSE LET featurizer_config == policy.featurizer[1]
             featurizer_func == FeaturizerFromModulePath(featurizer_config.name)
             states == featurizer_config.state_featurizer
         IN IF featurizer_func = "ImportError"
            THEN [status |-> "ImportError", featurizer |-> NoFeaturizer]
            ELSE IF states = <<>>
            THEN [status |-> "ok",
                  featurizer |-> [cls |-> featurizer_func, state_featurizer |-> "None"]]
            ELSE IF Len(states) > 1
            THEN [status |-> "InvalidPolicyConfig", featurizer |-> NoFeaturizer]
            ELSE IF FeaturizerFromModulePath(states[1].name) = "ImportError"
            THEN [status |-> "ImportError", featurizer |-> NoFeaturizer]
            ELSE [status |-> "ok",
                  featurizer |-> [cls |-> featurizer_func,
                                  state_featurizer |->
                                      FeaturizerFromModulePath(states[1].name)]]

\* one iteration of the loop over the policies: the exception that leaves it,
\* or the policy object appended
BuildPolicy(policy) ==
    LET f == BuildFeaturizer(policy)
        constr_func == PolicyFromModulePath(policy.name)
    IN IF f.status # "ok"
       THEN [status |-> f.status, policy |-> NonePolicy, featurizer |-> NoFeaturizer]
       ELSE IF constr_func = "ImportError"
       THEN [status |-> "InvalidPolicyConfig", policy |-> NonePolicy, featurizer |-> NoFeaturizer]
       ELSE [status |-> "ok", policy |-> [cls |-> constr_func, priority |-> 1],
             featurizer |-> f.featurizer]

RECURSIVE ParsePolicies(_, _)
\* the loop over the first k entries
ParsePolicies(entries, k) ==
    IF k = 0 THEN [status |-> "ok", parsed_policies |-> <<>>]
    ELSE LET prev == ParsePolicies(entries, k - 1)
             built == BuildPolicy(entries[k])
         IN IF prev.status # "ok" THEN prev
            ELSE IF built.status # "ok"
            THEN [status |-> built.status, parsed_policies |-> <<>>]
            ELSE [status |-> "ok",
                  parsed_policies |->
                      Append(prev.parsed_policies,
                             [cls |-> built.policy.cls, featurizer |-> built.featurizer])]

\* PolicyEnsemble.from_dict(policy_configuration)
FromDictPolicies(configuration) ==
    LET entries == PyOr(DictGet(configuration, "policies"),
                        DictGet(configuration, "policy"))
    IN IF ~entries.present
       THEN [status |-> "InvalidPolicyConfig", parsed_policies |-> <<>>]
       ELSE IF Len(entries.list) = 0
       THEN [status |-> "InvalidPolicyConfig", parsed_policies |-> <<>>]
       ELSE ParsePolicies(entries.list, Len(entries.list))

NotParsed == [status |-> "none", parsed_policies |-> <<>>]

NoConfiguration == [policies |-> KeyAbsent, policy |-> KeyAbsent]

(***************************************************************************)
(* Domain construction and its sanity check (rasa/core/domain.py)          *)
(*                                                                         *)
(* Here a slot is its name, and an intent is [name, triggers] with         *)
(* triggers = NoTrigger when its properties have no 'triggers' key.        *)
(***************************************************************************)
REQUESTED_SLOT == "requested_slot"
DEFAULT_KNOWLEDGE_BASE_ACTION == "action_query_knowledge_base"
SLOT_LISTED_ITEMS == "knowledge_base_listed_objects"
SLOT_LAST_OBJECT == "knowledge_base_last_object"
SLOT_LAST_OBJECT_TYPE == "knowledge_base_last_object_type"

NoTrigger == "no triggers"

\* check_mappings(intent_properties) is not empty
IncorrectMappings(intent_properties, action_names) ==
    \E i \in 1..Len(intent_properties) :
        /\ intent_properties[i].triggers # NoTrigger
        /\ intent_properties[i].triggers \notin Range(action_names)

\* _check_domain_sanity raises InvalidDomain
DomainSanityRaises(d) ==
    \/ HasDuplicates(d.action_names)
    \/ HasDuplicates(d.slots)
    \/ HasDuplicates(d.entities)
    \/ IncorrectMappings(d.intent_properties, d.action_names)

\* Domain(intents, entities, slots, templates, action_names, form_names): the
\* attributes set, and the exception the constructor leaves with, if any
DomainConstructor(intents, entities, slots, templates, action_names, form_names) ==
    LET user_actions == CombineWithTemplates(action_names, templates)
        d == [intent_properties |-> intents,
              entities |-> entities,
              form_names |-> form_names,
              slots |-> slots,
              templates |-> templates,
              user_actions |-> user_actions,
              action_names |->
                  CombineUserWithDefaultActions(user_actions) \o form_names]
    IN [status |-> IF IntentsNotUnique(intents) \/ DomainSanityRaises(d)
                   THEN "InvalidDomain" ELSE "ok",
        d |-> d]

AddRequestedSlot_Unguarded(d) ==
    IF d.form_names # <<>>
    THEN [d EXCEPT !.slots = Append(d.slots, REQUESTED_SLOT)] ELSE d

\* d.add_requested_slot()
AddRequestedSlot(d) ==
    IF d.form_names # <<>> /\ REQUESTED_SLOT \notin Range(d.slots)
    THEN [d EXCEPT !.slots = Append(d.slots, REQUESTED_SLOT)] ELSE d

RECURSIVE AppendMissing(_, _, _, _)
\* the loop over knowledge_base_slots from the k-th on; slot_names was taken
\* before the loop
AppendMissing(slots, slot_names, names, k) ==
    IF k > Len(names) THEN slots
    ELSE IF names[k] \notin slot_names
         THEN AppendMissing(Append(slots, names[k]), slot_names, names, k + 1)
         ELSE AppendMissing(slots, slot_names, names, k + 1)

\* d.add_knowledge_base_slots()
AddKnowledgeBaseSlots(d) ==
    IF DEFAULT_KNOWLEDGE_BASE_ACTION \in Range(d.action_names)
    THEN [d EXCEPT !.slots =
              AppendMissing(d.slots, Range(d.slots),
                            <<SLOT_LISTED_ITEMS, SLOT_LAST_OBJECT, SLOT_LAST_OBJECT_TYPE>>, 1)]
    ELSE d

\* the arguments a Domain may be constructed with
ConstructionArguments ==
    [intents : {<<>>} \cup {<<[name |-> "greet", triggers |-> t]>> :
                    t \in {NoTrigger, ACTION_LISTEN_NAME, "utter_greet", "book",
                           "action_search"}},
     entities : {<<>>, <<"city">>, <<"city", "time">>, <<"city", "city">>},
     slots : {<<>>, <<"city">>, <<"city", "city">>, <<REQUESTED_SLOT>>,
              <<SLOT_LAST_OBJECT>>},
     templates : {EmptyMap, [k \in {"utter_greet"} |-> <<[text |-> "hello"]>>]},
     action_names : {<<>>, <<"utter_greet">>, <<"utter_greet", "utter_greet">>,
                     <<ACTION_LISTEN_NAME>>, <<"book">>,
                     <<DEFAULT_KNOWLEDGE_BASE_ACTION>>},
     form_names : {<<>>, <<"book">>, <<"book", "book">>}]

NoConstruction ==
    [intents |-> <<>>, entities |-> <<>>, slots |-> <<>>, templates |-> EmptyMap,
     action_names |-> <<>>, form_names |-> <<>>]

NoDomain ==
    [status |-> "none",
     d |-> [intent_properties |-> <<>>, entities |-> <<>>, form_names |-> <<>>,
            slots |-> <<>>, templates |-> EmptyMap, user_actions |-> <<>>,
            action_names |-> <<>>]]

(***************************************************************************)
(* Response templates (Domain.collect_templates)                           *)
(*                                                                         *)
(* A variation is "str" (a plain string) or the set of keys of a dict.     *)
(***************************************************************************)
NoneValue == [is_none |-> TRUE, variations |-> <<>>]

Variations(l) == [is_none |-> FALSE, variations |-> l]

StringVariation == [is_str |-> TRUE, keys |-> {}]

DictVariation(keys) == [is_str |-> FALSE, keys |-> keys]

\* the variation raises InvalidDomain
VariationInvalid(t) == ~t.is_str /\ "text" \notin t.keys /\ "custom" \notin t.keys

\* what is appended to validated_variations for a valid t
ValidatedVariation(t) == IF t.is_str THEN DictVariation({"text"}) ELSE t

\* collect_templates raises InvalidDomain on this key
CollectTemplatesRaises(template_variations) ==
    \/ template_variations.is_none
    \/ \E i \in 1..Len(template_variations.variations) :
           VariationInvalid(template_variations.variations[i])

\* Domain.collect_templates(yml_templates): yml_templates maps each key that
\* is present to its value
CollectTemplates(yml) ==
    IF \E k \in DOMAIN yml : CollectTemplatesRaises(yml[k])
    THEN [status |-> "InvalidDomain", templates |-> EmptyMap]
    ELSE [status |-> "ok",
          templates |->
              [k \in DOMAIN yml |->
                  [i \in 1..Len(yml[k].variations) |->
                      ValidatedVariation(yml[k].variations[i])]]]

\* the values a response key may have in a domain file
TemplateValues ==
    {NoneValue, Variations(<<>>), Variations(<<StringVariation>>),
     Variations(<<DictVariation({"text"})>>),
     Variations(<<DictVariation({"custom"})>>),
     Variations(<<DictVariation({"image"})>>),
     Variations(<<DictVariation({"text", "image"}), DictVariation({"custom"})>>),
     Variations(<<DictVariation({"text"}), DictVariation({"buttons"})>>),
     Variations(<<StringVariation, DictVariation({"text"})>>)}

\* the 'responses' sections: some of the keys, each with a value
ResponseSections ==
    UNION {[keys -> TemplateValues] : keys \in SUBSET {"utter_greet", "utter_bye"}}

NotCollected == [status |-> "none", templates |-> EmptyMap]

(***************************************************************************)
(* Featurizing the tracker (Domain.get_active_states)                      *)
(*                                                                         *)
(* A value of 'use_entities' in the domain file is                         *)
(* [kind, list] with kind in True, False, None, list, missing.             *)
(***************************************************************************)
EntityTypes == {"city", "time"}

EntityLists == {<<>>, <<"city">>, <<"time">>, <<"city", "time">>}

UseEntitiesValues ==
    {[kind |-> k, list |-> <<>>] : k \in {"True", "False", "None", "missing"}}
        \cup {[kind |-> "list", list |-> l] : l \in EntityLists}

\* what collect_intent_properties stores for one intent given as a dict:
\* use_entities defaults to True, None and False become the empty list
CollectIntentProperties(name, use_entities, ignore_entities) ==
    [name |-> name,
     props |-> [use_all |-> use_entities.kind \in {"True", "missing"},
                use_entities |-> use_entities.list,
                ignore_entities |-> ignore_entities]]

NoIntentConfig == [use_all |-> TRUE, use_entities |-> <<>>, ignore_entities |-> <<>>]

\* self.intent_config(intent_name), with the defaults _get_featurized_entities
\* applies to a name the domain does not list
IntentConfig(props, intent_name) ==
    IF \E i \in 1..Len(props) : props[i].name = intent_name
    THEN (CHOOSE p \in Range(props) : p.name = intent_name).props
    ELSE NoIntentConfig

\* an entity of a message: an entry of latest_message.entities with or
\* without the key 'entity'
EntityEntry(e) == [has_entity |-> TRUE, entity |-> e]
EntryWithoutType == [has_entity |-> FALSE, entity |-> ""]

GetFeaturizedEntities_InclusionWins(props, latest_message) ==
    LET intent_config == IntentConfig(props, latest_message.intent_name)
        entity_names == {e.entity : e \in {x \in Range(latest_message.entities) :
                                               x.has_entity}}
        included_entities == IF intent_config.use_all THEN entity_names
                             ELSE Range(intent_config.use_entities)
    IN entity_names \cap included_entities

\* self._get_featurized_entities(latest_message)
GetFeaturizedEntities(props, latest_message) ==
    LET intent_config == IntentConfig(props, latest_message.intent_name)
        entity_names == {e.entity : e \in {x \in Range(latest_message.entities) :
                                               x.has_entity}}
        included_entities == IF intent_config.use_all THEN entity_names
                             ELSE Range(intent_config.use_entities)
        excluded_entities == Range(intent_config.ignore_entities)
        wanted_entities == included_entities \ excluded_entities
    IN entity_names \cap wanted_entities

NoMessage == [exists |-> FALSE, intent_name |-> "None", entities |-> <<>>]

\* the keys of get_parsing_states(tracker); the one slot of the tracker, city,
\* has one feature, non-zero when the slot is set
GetParsingStates(props, tr) ==
    IF ~tr.latest_message.exists THEN {}
    ELSE (IF tr.latest_message.intent_name # "None"
          THEN {"entity_" \o e : e \in GetFeaturizedEntities(props, tr.latest_message)}
          ELSE {})
         \cup (IF tr.city_slot_set THEN {"slot_city_0"} ELSE {})
         \cup (IF tr.latest_message.intent_name # "None"
               THEN {"intent_" \o tr.latest_message.intent_name} ELSE {})

\* the keys of get_prev_action_states(tracker)
GetPrevActionStates(tr) ==
    IF tr.latest_action_name # "None" THEN {"prev_" \o tr.latest_action_name} ELSE {}

\* the keys of get_active_form(tracker)
GetActiveForm(tr) ==
    IF tr.active_form # "None" THEN {"active_form_" \o tr.active_form} ELSE {}

\* the keys of get_active_states(tracker)
GetActiveStates(props, tr) ==
    GetParsingStates(props, tr) \cup GetPrevActionStates(tr) \cup GetActiveForm(tr)

\* the messages a user may send, as parsed
Messages ==
    [exists : {TRUE}, intent_name : {"greet", "bye", "None"},
     entities : {<<>>, <<EntityEntry("city")>>, <<EntityEntry("time")>>,
                 <<EntityEntry("city"), EntityEntry("time")>>,
                 <<EntryWithoutType, EntityEntry("city")>>}]

NewTracker ==
    [latest_message |-> NoMessage, city_slot_set |-> FALSE,
     latest_action_name |-> "None", active_form |-> "None"]

NotFeaturized == [done |-> FALSE, keys |-> {}]

(***************************************************************************)
(* The evaluation store of rasa/core/test.py.  Python's None is the string *)
(* "<None>", which no action, intent or policy is called; the padding      *)
(* value of serialise is the four-letter string "None".                    *)
(***************************************************************************)
PythonNone == "<None>"

\* bool(v) of a string or of None
Truthy(v) == v # PythonNone /\ v # ""

\* EvaluationStore(): every list is empty
EmptyStore ==
    [action_predictions |-> <<>>, action_targets |-> <<>>,
     intent_predictions |-> <<>>, intent_targets |-> <<>>,
     entity_predictions |-> <<>>, entity_targets |-> <<>>]

\* a keyword argument of add_to_store: left at its default, one value, a list
NotGiven == [given |-> FALSE, is_list |-> FALSE, items |-> <<>>]

Scalar(v) == [given |-> TRUE, is_list |-> FALSE, items |-> <<v>>]

ListArg(l) == [given |-> TRUE, is_list |-> TRUE, items |-> l]

NoArguments ==
    [action_predictions |-> NotGiven, action_targets |-> NotGiven,
     intent_predictions |-> NotGiven, intent_targets |-> NotGiven,
     entity_predictions |-> NotGiven, entity_targets |-> NotGiven]

\* `k != "self" and v`: an argument that is None, "" or [] is passed over
ArgumentTruthy(arg) ==
    /\ arg.given
    /\ IF arg.is_list THEN Len(arg.items) > 0 ELSE Truthy(arg.items[1])

\* one round of the loop of add_to_store: extend with a list, append a value
AddArgument(attr, arg) ==
    IF ArgumentTruthy(arg) THEN attr \o arg.items ELSE attr

\* EvaluationStore.add_to_store(**arguments)
AddToStore(self, arguments) ==
    [k \in DOMAIN self |-> AddArgument(self[k], arguments[k])]

\* the condition of the list comprehension of _in_training_data_fraction
InTrainingData(policy) == Truthy(policy) /\ ~is_not_memo_policy(policy)

\* this variant puts the contents of other in front
MergeStore_InFront(self, other) ==
    [k \in DOMAIN self |-> other[k] \o self[k]]

\* EvaluationStore.merge_store(other)
MergeStore(self, other) ==
    AddToStore(self, [k \in DOMAIN other |-> ListArg(other[k])])

\* EvaluationStore.has_prediction_target_mismatch()
HasPredictionTargetMismatch(self) ==
    \/ self.intent_predictions # self.intent_targets
    \/ self.entity_predictions # self.entity_targets
    \/ self.action_predictions # self.action_targets

\* text[start:end] of a Python string
Slice(text, start, end) == SubSeq(text, start + 1, end)

\* MarkdownWriter.generate_entity_md(text, entity)
GenerateEntityMd(text, entity) ==
    LET entity_text == Slice(text, entity.start, entity.end)
        entity_type == IF entity_text # entity.value
                       THEN entity.entity \o ":" \o entity.value
                       ELSE entity.entity
    IN  "[" \o entity_text \o "](" \o entity_type \o ")"

\* [padding_value] * n
Padding(padding_value, n) == [i \in 1..n |-> padding_value]

\* rasa.core.utils.pad_lists_to_size(list_x, list_y, padding_value)
PadListsToSize(list_x, list_y, padding_value) ==
    LET difference == Len(list_x) - Len(list_y)
    IN  IF difference > 0
        THEN <<list_x, list_y \o Padding(padding_value, difference)>>
        ELSE IF difference < 0
             THEN <<list_x \o Padding(padding_value, -difference), list_y>>
             ELSE <<list_x, list_y>>

\* EvaluationStore.serialise(): the pair (targets, predictions); this variant
\* returns the two concatenations as they are
Serialise_Unpadded(self) ==
    LET Md(l) == [i \in 1..Len(l) |-> GenerateEntityMd(l[i].text, l[i])]
    IN  <<self.action_targets \o self.intent_targets \o Md(self.entity_targets),
          self.action_predictions \o self.intent_predictions
              \o Md(self.entity_predictions)>>

Serialise(self) ==
    LET Md(l) == [i \in 1..Len(l) |-> GenerateEntityMd(l[i].text, l[i])]
        targets == self.action_targets \o self.intent_targets
                       \o Md(self.entity_targets)
        predictions == self.action_predictions \o self.intent_predictions
                           \o Md(self.entity_predictions)
    IN  PadListsToSize(targets, predictions, "None")

(***************************************************************************)
(* The evaluation engine of rasa/core/test.py                              *)
(***************************************************************************)
\* `sub in s` of two Python strings
Contains(s, sub) ==
    \E i \in 1..(Len(s) - Len(sub) + 1) : SubSeq(s, i, i + Len(sub) - 1) = sub

FormPolicyName == "FormPolicy"

\* _clean_entity_results(text, entity_results): the text and the four token
\* keys of every entity, nothing else
CleanEntityResults(text, entity_results) ==
    [i \in 1..Len(entity_results) |->
        [text |-> text, start |-> entity_results[i].start,
         end |-> entity_results[i].end, entity |-> entity_results[i].entity,
         value |-> entity_results[i].value]]

NoException == [exception |-> "none", story_in_message |-> FALSE, during |-> "none"]

Raise(exception, story, during) ==
    [exception |-> exception, story_in_message |-> story, during |-> during]

\* what a _collect_..._predictions call comes to: the store it returns, the
\* events it put on the partial tracker, the exception it left with
Collected(store, updates, exception) ==
    [store |-> store, updates |-> updates, raised |-> exception]

\* _collect_user_uttered_predictions(event, partial_tracker, fail_on_prediction_errors)
CollectUserUtteredPredictions(event, fail_on_prediction_errors) ==
    LET intent_gold == event.true_intent
        predicted_intent == IF ~Truthy(event.intent) THEN ListArg(<<PythonNone>>)
                            ELSE Scalar(event.intent)
        with_intents ==
            AddToStore(EmptyStore,
                       [NoArguments EXCEPT !.intent_predictions = predicted_intent,
                                           !.intent_targets = Scalar(intent_gold)])
        entity_gold == event.true_entities
        predicted_entities == event.entities
        any_entities == \/ entity_gold.present /\ Len(entity_gold.list) > 0
                        \/ predicted_entities.present /\ Len(predicted_entities.list) > 0
        \* tuple(None) in _clean_entity_results
        not_iterable == any_entities /\ (~entity_gold.present \/ ~predicted_entities.present)
        user_uttered_eval_store ==
            IF any_entities /\ ~not_iterable
            THEN AddToStore(with_intents,
                     [NoArguments EXCEPT
                         !.entity_targets =
                             ListArg(CleanEntityResults(event.text, entity_gold.list)),
                         !.entity_predictions =
                             ListArg(CleanEntityResults(event.text, predicted_entities.list))])
            ELSE with_intents
    IN  IF not_iterable
        THEN Collected(with_intents, <<>>, Raise("TypeError", FALSE, "clean_entities"))
        ELSE IF HasPredictionTargetMismatch(user_uttered_eval_store)
        THEN \* WronglyClassifiedUserUtterance reads eval_store.intent_targets[0]
             IF Len(user_uttered_eval_store.intent_targets) = 0
             THEN Collected(user_uttered_eval_store, <<>>,
                            Raise("IndexError", FALSE, "mismatch"))
             ELSE IF fail_on_prediction_errors
             THEN Collected(user_uttered_eval_store, <<"wrong_utterance">>,
                            Raise("ValueError", TRUE, "mismatch"))
             ELSE Collected(user_uttered_eval_store, <<"wrong_utterance">>, NoException)
        ELSE Collected(user_uttered_eval_store, <<"user">>, NoException)

\* _collect_action_executed_predictions(processor, partial_tracker, event,
\* fail_on_prediction_errors): first and again are what predict_next_action
\* returns on its first and its second call, rejected says whether
\* _emulate_form_rejection left an ActionExecutionRejected on the tracker
CollectActionExecutedPredictions(event, first, again, rejected, fail_on_prediction_errors) ==
    LET gold == event.action_name
        retried == /\ Truthy(first.policy)
                   /\ first.action # gold
                   /\ Contains(first.policy, FormPolicyName)
        prediction == IF retried THEN again ELSE first
        predicted == prediction.action
        policy == prediction.policy
        rejection == IF retried /\ rejected THEN <<"rejected">> ELSE <<>>
        action_executed_eval_store ==
            AddToStore(EmptyStore,
                       [NoArguments EXCEPT !.action_predictions = Scalar(predicted),
                                           !.action_targets = Scalar(gold)])
        wrong == rejection \o <<"wrong_action">>
        outcome ==
            IF HasPredictionTargetMismatch(action_executed_eval_store)
            THEN IF fail_on_prediction_errors
                 THEN \* `FormPolicy.__name__ in policy` of a policy that is None
                      IF policy = PythonNone
                      THEN Collected(action_executed_eval_store, wrong,
                                     Raise("TypeError", FALSE, "mismatch"))
                      ELSE Collected(action_executed_eval_store, wrong,
                                     Raise("ValueError", TRUE, "mismatch"))
                 ELSE Collected(action_executed_eval_store, wrong, NoException)
            ELSE Collected(action_executed_eval_store, rejection \o <<"action">>,
                           NoException)
    IN  [store |-> outcome.store, updates |-> outcome.updates,
         raised |-> outcome.raised, policy |-> policy]

\* the stories that are evaluated: gold actions, what the processor predicts,
\* the policy it names, the user messages with their gold annotation
StoryActions == {"utter_greet", "utter_bye"}

PolicyIdentifiers == {PythonNone, "policy_0_MemoizationPolicy", "policy_1_FormPolicy"}

Predictions == [action : StoryActions, policy : PolicyIdentifiers]

ActionExecutedEvents == [action_name : StoryActions]

StoryText == "rome now"

GoldEntity == [start |-> 0, end |-> 4, entity |-> "city", value |-> "rome"]

PredictedEntity ==
    [start |-> 0, end |-> 4, entity |-> "city", value |-> "rome",
     extractor |-> "CRFEntityExtractor"]

UserUtteredEvents ==
    [text : {StoryText},
     true_intent : {PythonNone, "greet"},
     intent : {PythonNone, "greet", "bye"},
     true_entities : {KeyAbsent, Listed(<<>>), Listed(<<GoldEntity>>)},
     entities : {Listed(<<>>), Listed(<<PredictedEntity>>)}]

\* a quotient that is kept as its two numbers
Fraction(n, d) == [returned |-> TRUE, numerator |-> n, denominator |-> d]

NoFraction == [returned |-> FALSE, numerator |-> 0, denominator |-> 0]

NotStarted ==
    [fail_on_prediction_errors |-> FALSE, use_e2e |-> FALSE, stories |-> 0,
     in_story |-> FALSE, story_events |-> 0, action_list |-> 0,
     in_training_data |-> 0,
     correct_dialogues |-> <<>>, failed |-> <<>>, tracker_results |-> <<>>,
     finished |-> FALSE, in_training_data_fraction |-> NoFraction]

TimeEntity == [start |-> 5, end |-> 8, entity |-> "time", value |-> "today"]

\* what the lists of a store hold when serialise is called on it
StoreEntities == Range(CleanEntityResults(StoryText, <<GoldEntity, TimeEntity>>))

StoreItems ==
    [action_predictions |-> StoryActions, action_targets |-> StoryActions,
     intent_predictions |-> {"greet", PythonNone}, intent_targets |-> {"greet", "bye"},
     entity_predictions |-> StoreEntities, entity_targets |-> StoreEntities]

\* how add_to_store is handed one item: actions and intents as a value or as
\* a list, entities always as a list
StoreArguments(k, v) ==
    IF k \in {"entity_predictions", "entity_targets"}
    THEN {ListArg(<<v>>)}
    ELSE {Scalar(v), ListArg(<<v>>)}

NotSerialised == [done |-> FALSE, targets |-> <<>>, predictions |-> <<>>]

(***************************************************************************)
(* _collect_action_executed_predictions and _emulate_form_rejection of     *)
(* rasa/core/test.py, one statement group at a time, on a partial tracker  *)
(* with its events, its latest action name and its active form             *)
(***************************************************************************)
FormName == "book_form"

\* Form(name): the event that activates a form, or with None ends it
FormEvent(name) == [type |-> "form", action_name |-> name]

\* WronglyPredictedAction(correct_action, predicted_action, ...): this variant
\* hands the predicted action to ActionExecuted.__init__
WronglyPredictedAction_Predicted(correct_action, predicted_action) ==
    [type |-> "wrong_action", action_name |-> predicted_action]

\* an ActionExecuted of the correct action that is dumped with the predicted one
WronglyPredictedAction(correct_action, predicted_action) ==
    [type |-> "wrong_action", action_name |-> correct_action]

\* isinstance(event, ActionExecuted)
IsActionExecuted(event) == event.type \in {"action", "wrong_action"}

\* DialogueStateTracker.from_events(sender_id, events[:1], slots)
ReplayStart ==
    [events |-> <<ActionExecuted(ACTION_LISTEN_NAME)>>,
     latest_action_name |-> ACTION_LISTEN_NAME,
     form_name |-> PythonNone, form_rejected |-> FALSE]

\* tracker.update(event): the event is appended and applied
ReplayUpdate(tr, event) ==
    LET appended == [tr EXCEPT !.events = Append(@, event)]
    IN  CASE IsActionExecuted(event) ->
                 [appended EXCEPT
                     !.latest_action_name = event.action_name,
                     !.form_rejected = IF event.action_name = tr.form_name
                                       THEN FALSE ELSE @]
          [] event.type = "rejected" ->
                 [appended EXCEPT
                     !.form_rejected = IF event.action_name = tr.form_name
                                       THEN TRUE ELSE @]
          [] event.type = "form" ->
                 [appended EXCEPT !.form_name = event.action_name,
                                  !.form_rejected = FALSE]
          [] OTHER -> appended

RECURSIVE EmulateFormRejection(_, _, _, _)
\* _emulate_form_rejection(processor, partial_tracker) from policy k on:
\* ensemble is the class of each policy of the ensemble, unhappy[k] what
\* state_is_unhappy of policy k answers
EmulateFormRejection(tr, ensemble, unhappy, k) ==
    IF ~Truthy(tr.form_name) \/ k > Len(ensemble) THEN tr
    ELSE IF ensemble[k] # FormPolicyName
    THEN EmulateFormRejection(tr, ensemble, unhappy, k + 1)
    ELSE LET rejected == ReplayUpdate(tr, ActionExecutionRejected(tr.form_name))
             after == IF ~unhappy[k]
                      THEN [rejected EXCEPT !.events = SubSeq(@, 1, Len(@) - 1),
                                            !.form_rejected = FALSE]
                      ELSE rejected
         IN  EmulateFormRejection(after, ensemble, unhappy, k + 1)

\* `policy and predicted != gold and FormPolicy.__name__ in policy`; this
\* variant leaves out the comparison with the gold action
RetriesAfterFormRejection_AnyPrediction(policy, predicted, gold) ==
    Truthy(policy) /\ Contains(policy, FormPolicyName)

RetriesAfterFormRejection(policy, predicted, gold) ==
    /\ Truthy(policy)
    /\ predicted # gold
    /\ Contains(policy, FormPolicyName)

\* the classes of the policies of the ensemble the processor holds
ReplayPolicyClasses == {FormPolicyName, MemoizationPolicyName}

ReplayEnsembles ==
    UNION {[1..n -> ReplayPolicyClasses] : n \in 0..MaxPolicies}

\* the actions of the replayed stories: two utterances and the form
ReplayActions == StoryActions \cup {FormName}

ReplayPredictions == [action : ReplayActions, policy : PolicyIdentifiers]

\* no call of _collect_action_executed_predictions is under way
NotCollecting ==
    [pc |-> "idle", gold |-> PythonNone, predictions |-> <<>>, unhappy |-> <<>>,
     log |-> <<>>, store |-> EmptyStore, exception |-> "none", done |-> 0]

(***************************************************************************)
(* Indexing the state schema (Domain.num_states, Domain.index_of_state)    *)
(***************************************************************************)
\* Domain.num_states
NumStates(d) == Len(InputStates(d))

\* dict.get(key) of a dict with integer values: the value, or None
NoIndex == [found |-> FALSE, index |-> 0]

\* {f: i for i, f in enumerate(...)}, this variant with enumerate(..., 1)
InputStateMap_FromOne(d) ==
    [f \in Range(InputStates(d)) |->
        CHOOSE i \in 1..Len(InputStates(d)) :
            /\ InputStates(d)[i] = f
            /\ \A j \in (i + 1)..Len(InputStates(d)) : InputStates(d)[j] # f]

\* Domain.input_state_map: {f: i for i, f in enumerate(self.input_states)},
\* a later position of a name replaces an earlier one
InputStateMap(d) ==
    [f \in Range(InputStates(d)) |->
        (CHOOSE i \in 1..Len(InputStates(d)) :
            /\ InputStates(d)[i] = f
            /\ \A j \in (i + 1)..Len(InputStates(d)) : InputStates(d)[j] # f) - 1]

\* Domain.index_of_state(state_name)
IndexOfState(d, state_name) ==
    IF state_name \in DOMAIN InputStateMap(d)
    THEN [found |-> TRUE, index |-> InputStateMap(d)[state_name]]
    ELSE NoIndex

NoLookup ==
    [asked |-> FALSE, state_name |-> "", index |-> NoIndex,
     counted |-> FALSE, num_states |-> 0]

(***************************************************************************)
(* Action fingerprints (ensemble.py): what the training trackers show to   *)
(* happen after each action                                                *)
(***************************************************************************)
SlotSet(key, value) == [type |-> "slot", action_name |-> "", key |-> key, value |-> value]

\* the key and event pairs the loop of _training_events_from_trackers adds;
\* this variant reads latest_action_name after the whole tracker is replayed
TrainingEventsFromTrackers_AfterAllEvents(trackers) ==
    LET added == {<<LatestActionName(trackers[i]), trackers[i][j]>> :
                      <<i, j>> \in {p \in (1..Len(trackers)) \X (1..MaxTrainingEvents + 1) :
                                        /\ p[2] <= Len(trackers[p[1]])
                                        /\ trackers[p[1]][p[2]].type # "action"}}
    IN  [k \in {a[1] : a \in added} |-> {a[2] : a \in {b \in added : b[1] = k}}]

\* _training_events_from_trackers: each tracker is replayed on a copy, event
\* by event; an event that is no ActionExecuted is added to the set of the
\* copy's latest_action_name as it is right after the update
TrainingEventsFromTrackers(trackers) ==
    LET added == {<<LatestActionName(SubSeq(trackers[p[1]], 1, p[2])), trackers[p[1]][p[2]]>> :
                      p \in {q \in (1..Len(trackers)) \X (1..MaxTrainingEvents + 1) :
                                 /\ q[2] <= Len(trackers[q[1]])
                                 /\ trackers[q[1]][q[2]].type # "action"}}
    IN  [k \in {a[1] : a \in added} |-> {a[2] : a \in {b \in added : b[1] = k}}]

\* list(a set): every element once, in an order the hashing decides
ListsOfSet(S) ==
    {l \in UNION {[1..n -> S] : n \in {Cardinality(S)}} : Range(l) = S}

NoFingerprints ==
    [computed |-> FALSE, is_none |-> FALSE, fingerprints |-> [k \in {} |-> <<>>]]

\* _create_action_fingerprints: None when there are no training events, or
\* else for each key the list of the keys of its SlotSet events; the
\* outcomes it can have, one for each order of the lists
CreateActionFingerprints(training_events) ==
    IF DOMAIN training_events = {}
    THEN {[computed |-> TRUE, is_none |-> TRUE, fingerprints |-> [k \in {} |-> <<>>]]}
    ELSE LET slots(k) == {v.key : v \in {e \in training_events[k] : e.type = "slot"}}
             keys == DOMAIN training_events
             lists == UNION {ListsOfSet(slots(k)) : k \in keys}
         IN  {[computed |-> TRUE, is_none |-> FALSE, fingerprints |-> f] :
                  f \in {g \in [keys -> [slots : lists]] :
                             \A k \in keys : g[k].slots \in ListsOfSet(slots(k))}}

NoObject == [exists |-> FALSE, raised |-> FALSE, d |-> EmptyDomain]

NoMergeCall == [self |-> EmptyDomain, other |-> EmptyDomain, override |-> FALSE]

NoArbitration == [result |-> <<>>, best_policy_name |-> "None"]

NoSpecification ==
    [exists |-> FALSE, document |-> [states |-> <<>>], written_by |-> EmptyDomain]

NoComparison == [status |-> "none", removed |-> {}, added |-> {}]

\* no ensemble is involved
EnsembleIdle ==
    /\ policies = <<>>
    /\ held = <<>>
    /\ events = <<>>
    /\ raw = <<>>
    /\ arbitration = NoArbitration
    /\ result = <<>>
    /\ best_policy_name = "None"
    /\ calls = 0

\* no merge run is involved
MergeIdle == objects = [o \in ObjectIds |-> NoObject]

\* no model directory is involved
CompareIdle ==
    /\ live = EmptyDomain
    /\ persisted = NoSpecification
    /\ comparison = NoComparison

\* no model is persisted or loaded
PersistIdle ==
    /\ trained = <<>>
    /\ model_dir = NoModel
    /\ loaded = NotLoaded
    /\ persists = 0
    /\ compatibility = NotChecked

\* no policy configuration is parsed
ConfigIdle ==
    /\ policy_configuration = NoConfiguration
    /\ parsed = NotParsed

\* no Domain is being constructed
SanityIdle ==
    /\ construction = NoConstruction
    /\ constructed = NoDomain

\* no responses are collected
TemplatesIdle ==
    /\ yml_templates = EmptyMap
    /\ collected = NotCollected

\* no tracker is featurized
FeaturizeIdle ==
    /\ domain_intents = <<>>
    /\ tracker = NewTracker
    /\ active_states = NotFeaturized

\* no store is filled or serialised
StoreIdle ==
    /\ eval_store = EmptyStore
    /\ serialised = NotSerialised

\* no stories are evaluated
EvaluateIdle ==
    /\ evaluation = NotStarted
    /\ story_eval_store = EmptyStore
    /\ tracker_eval_store = EmptyStore
    /\ partial_tracker = <<>>
    /\ failure = NoException

\* no story is replayed
ReplayIdle ==
    /\ replay_ensemble = <<>>
    /\ replay_fail = FALSE
    /\ replay_tracker = ReplayStart
    /\ collecting = NotCollecting

\* no state schema is read
SchemaIdle ==
    /\ schema_domain = EmptyDomain
    /\ state_lookup = NoLookup

\* no merge of two fragments is called
WinnerIdle ==
    /\ merge_call = NoMergeCall
    /\ merge_result = NoObject

FingerprintIdle ==
    /\ training_trackers = <<>>
    /\ action_fingerprints = NoFingerprints

\* every part of the program but the one a specification is about is at rest
IdleExcept(part) ==
    /\ part # "Ensemble" => EnsembleIdle
    /\ part # "Merge" => MergeIdle
    /\ part # "Compare" => CompareIdle
    /\ part \notin {"Persist", "Version"} => PersistIdle
    /\ part # "Config" => ConfigIdle
    /\ part # "Sanity" => SanityIdle
    /\ part # "Templates" => TemplatesIdle
    /\ part # "Featurize" => FeaturizeIdle
    /\ part # "Store" => StoreIdle
    /\ part # "Evaluate" => EvaluateIdle
    /\ part # "Replay" => ReplayIdle
    /\ part # "Schema" => SchemaIdle
    /\ part # "Winner" => WinnerIdle
    /\ part # "Fingerprint" => FingerprintIdle

(***************************************************************************)
(* Actions of the ensemble specification                                   *)
(***************************************************************************)
InitEnsemble ==
    /\ IdleExcept("Ensemble")
    /\ policies \in UNION {[1..n -> Policy] : n \in 0..MaxPolicies}
    /\ held \in [1..Len(policies) -> Distributions]
    /\ events = <<>>
    /\ raw = <<>>
    /\ arbitration = NoArbitration
    /\ result = <<>>
    /\ best_policy_name = "None"
    /\ calls = 0

\* the conversation appends an event to the tracker; the values returned by
\* an earlier call were locals of the caller and are gone
TrackerUpdate ==
    /\ Len(events) < MaxEvents
    /\ \E e \in Events : events' = Append(events, e)
    /\ raw' = <<>>
    /\ arbitration' = NoArbitration
    /\ result' = <<>>
    /\ best_policy_name' = "None"
    /\ calls' = 0
    /\ UNCHANGED <<policies, held, outsideEnsemble>>

\* one call of probabilities_using_best_policy(tracker, domain). Each policy
\* returns either the list it holds internally or a fresh copy of it; the
\* rejection zeroing is an in-place item assignment on the returned list.
ProbabilitiesUsingBestPolicy ==
    /\ calls < MaxCalls
    /\ calls' = calls + 1
    /\ \E shared \in SUBSET (1..Len(policies)) :
         LET prediction ==
                 BestPolicyPrediction(policies, held, events, ServingActionNames)
         IN /\ raw' = held
            /\ held' = [i \in 1..Len(policies) |->
                           IF i \in shared
                           THEN ZeroRejected(held[i], events, ServingActionNames)
                           ELSE held[i]]
            /\ arbitration' = prediction.arbitration
            /\ result' = prediction.result
            /\ best_policy_name' = prediction.best_policy_name
    /\ UNCHANGED <<policies, events, outsideEnsemble>>

NextEnsemble == TrackerUpdate \/ ProbabilitiesUsingBestPolicy

SpecEnsemble == InitEnsemble /\ [][NextEnsemble]_vars

InitMerge ==
    /\ \E a \in FragmentDomains("A"), b \in FragmentDomains("B"),
          c \in FragmentDomains("C") :
          objects = [o \in ObjectIds |->
                        CASE o = "A" -> [exists |-> TRUE, raised |-> FALSE, d |-> a]
                          [] o = "B" -> [exists |-> TRUE, raised |-> FALSE, d |-> b]
                          [] o = "C" -> [exists |-> TRUE, raised |-> FALSE, d |-> c]
                          [] OTHER -> NoObject]
    /\ IdleExcept("Merge")

\* objects[t] := objects[self].merge(objects[argument])
MergeStep(t) ==
    LET self == MergeOperands[t][1]
        argument == MergeOperands[t][2]
        m == Merge(objects[self].d, objects[argument].d, FALSE)
    IN /\ ~objects[t].exists
       /\ objects[self].exists /\ ~objects[self].raised
       /\ objects[argument].exists /\ ~objects[argument].raised
       /\ objects' = [objects EXCEPT
              ![t] = [exists |-> TRUE, raised |-> ~m.returned.ok, d |-> m.returned],
              ![argument].d.user_actions = m.argument_user_actions]
       /\ UNCHANGED outsideMerge

NextMerge == \E t \in MergeTargets : MergeStep(t)

SpecMerge == InitMerge /\ [][NextMerge]_vars

(***************************************************************************)
(* Persisting and comparing the domain specification                       *)
(***************************************************************************)
\* the domains a model may be trained or served with
SchemaDomains ==
    {d \in {DomainInit(intents, entities, slot_dict, EmptyMap, <<>>, forms, TRUE,
                       DefaultSessionConfig) :
               intents \in {<<>>, <<FragmentGreet("A")>>},
               entities \in {<<>>, <<"city">>, <<"city", "time">>, <<"time", "city">>},
               slot_dict \in {FragmentSlots("B"), FragmentSlots("C")},
               forms \in {<<>>, <<"book">>}} : d.ok}

InitCompare ==
    /\ live \in SchemaDomains
    /\ persisted = NoSpecification
    /\ comparison = NoComparison
    /\ IdleExcept("Compare")

\* live.persist_specification(model_path)
PersistSpecification ==
    /\ persisted' = [exists |-> TRUE, document |-> SpecificationDocument(live),
                     written_by |-> live]
    /\ comparison' = NoComparison
    /\ UNCHANGED <<live, outsideCompare>>

\* the domain file is edited and loaded again
DomainChange ==
    /\ \E d \in SchemaDomains : d # live /\ live' = d
    /\ comparison' = NoComparison
    /\ UNCHANGED <<persisted, outsideCompare>>

\* live.compare_with_specification(model_path)
CompareWithSpecification ==
    /\ persisted.exists
    /\ comparison' = CompareWithSpecificationResult(live, persisted.document)
    /\ UNCHANGED <<live, persisted, outsideCompare>>

NextCompare == PersistSpecification \/ DomainChange \/ CompareWithSpecification

SpecCompare == InitCompare /\ [][NextCompare]_vars

(***************************************************************************)
(* Persisting and loading a trained ensemble                               *)
(***************************************************************************)
Ensembles == UNION {[1..n -> Policy] : n \in 0..MaxPolicies}

InitPersist ==
    /\ IdleExcept("Persist")
    /\ trained \in Ensembles
    /\ model_dir = NoModel
    /\ loaded = NotLoaded
    /\ persists = 0
    /\ compatibility = NotChecked

\* trained.persist(path), run by an installation of some version
PersistEnsemble ==
    /\ persists < MaxPersists
    /\ \E v \in {"1.9.6"} \cup InstanceVersions :
           model_dir' = Persist(model_dir, trained, v)
    /\ persists' = persists + 1
    /\ loaded' = NotLoaded
    /\ UNCHANGED <<trained, compatibility, outsidePersist>>

\* another ensemble is configured and trained after the model was written
Retrain ==
    /\ model_dir.metadata.exists
    /\ model_dir.written_by = trained
    /\ persists < MaxPersists
    /\ \E ps \in Ensembles : ps # trained /\ trained' = ps
    /\ UNCHANGED <<model_dir, loaded, persists, compatibility, outsidePersist>>

\* PolicyEnsemble.load(path)
LoadEnsemble ==
    /\ model_dir.metadata.exists
    /\ loaded' = Load(model_dir)
    /\ UNCHANGED <<trained, model_dir, persists, compatibility, outsidePersist>>

NextPersist == PersistEnsemble \/ Retrain \/ LoadEnsemble

SpecPersist == InitPersist /\ [][NextPersist]_vars

(***************************************************************************)
(* The version guard on its own                                            *)
(***************************************************************************)
InitVersion ==
    /\ IdleExcept("Version")
    /\ trained = <<>>
    /\ model_dir = NoModel
    /\ loaded = NotLoaded
    /\ persists = 0
    /\ \E m \in ModelVersions \cup {Absent}, v \in ModelVersions \cup {"None"} :
           compatibility = [NotChecked EXCEPT !.metadata_rasa = m,
                                              !.version_to_check = v]

\* PolicyEnsemble.ensure_model_compatibility(metadata, version_to_check)
CheckCompatibility ==
    /\ ~compatibility.done
    /\ LET r == EnsureModelCompatibility(compatibility.metadata_rasa,
                                         compatibility.version_to_check)
       IN compatibility' =
              [compatibility EXCEPT !.done = TRUE, !.status = r.status,
                                    !.model_version = r.model_version,
                                    !.minimal_compatible_version =
                                        r.minimal_compatible_version]
    /\ UNCHANGED <<trained, model_dir, loaded, persists, outsidePersist>>

NextVersion == CheckCompatibility

SpecVersion == InitVersion /\ [][NextVersion]_vars

(***************************************************************************)
(* Parsing a policy configuration                                          *)
(***************************************************************************)
InitConfig ==
    /\ IdleExcept("Config")
    /\ policy_configuration \in PolicyConfigurations
    /\ parsed = NotParsed

\* PolicyEnsemble.from_dict(policy_configuration)
ParseConfiguration ==
    /\ parsed = NotParsed
    /\ parsed' = FromDictPolicies(policy_configuration)
    /\ UNCHANGED <<policy_configuration, outsideConfig>>

NextConfig == ParseConfiguration

SpecConfig == InitConfig /\ [][NextConfig]_vars

(***************************************************************************)
(* Constructing a Domain and adding slots to it                            *)
(***************************************************************************)
InitSanity ==
    /\ IdleExcept("Sanity")
    /\ construction \in ConstructionArguments
    /\ constructed = NoDomain

\* Domain(intents, entities, slots, templates, action_names, form_names)
ConstructDomain ==
    /\ constructed.status = "none"
    /\ constructed' =
           DomainConstructor(construction.intents, construction.entities,
                             construction.slots, construction.templates,
                             construction.action_names, construction.form_names)
    /\ UNCHANGED <<construction, outsideSanity>>

\* domain.add_requested_slot()
AddRequestedSlotCall ==
    /\ constructed.status = "ok"
    /\ constructed' = [constructed EXCEPT !.d = AddRequestedSlot(constructed.d)]
    /\ UNCHANGED <<construction, outsideSanity>>

\* domain.add_knowledge_base_slots()
AddKnowledgeBaseSlotsCall ==
    /\ constructed.status = "ok"
    /\ constructed' = [constructed EXCEPT !.d = AddKnowledgeBaseSlots(constructed.d)]
    /\ UNCHANGED <<construction, outsideSanity>>

NextSanity == ConstructDomain \/ AddRequestedSlotCall \/ AddKnowledgeBaseSlotsCall

SpecSanity == InitSanity /\ [][NextSanity]_vars

(***************************************************************************)
(* Collecting the response templates                                       *)
(***************************************************************************)
InitTemplates ==
    /\ IdleExcept("Templates")
    /\ yml_templates \in ResponseSections
    /\ collected = NotCollected

\* Domain.from_dict(data) up to collect_templates(data.get("responses", {}))
CollectTemplatesCall ==
    /\ collected.status = "none"
    /\ collected' = CollectTemplates(yml_templates)
    /\ UNCHANGED <<yml_templates, outsideTemplates>>

NextTemplates == CollectTemplatesCall

SpecTemplates == InitTemplates /\ [][NextTemplates]_vars

(***************************************************************************)
(* Featurizing a conversation                                              *)
(***************************************************************************)
InitFeaturize ==
    /\ IdleExcept("Featurize")
    /\ \E u \in UseEntitiesValues, i \in EntityLists :
           domain_intents = <<CollectIntentProperties("greet", u, i)>>
    /\ tracker = NewTracker
    /\ active_states = NotFeaturized

\* the user sends a message; the processor logs it and the slots, the action
\* and the form in force
UserMessage ==
    /\ \E msg \in Messages, slot \in BOOLEAN,
          a \in {"None", ACTION_LISTEN_NAME}, f \in {"None", "book"} :
           tracker' = [latest_message |-> msg, city_slot_set |-> slot,
                       latest_action_name |-> a, active_form |-> f]
    /\ active_states' = NotFeaturized
    /\ UNCHANGED <<domain_intents, outsideFeaturize>>

\* domain.get_active_states(tracker)
GetActiveStatesCall ==
    /\ active_states' = [done |-> TRUE, keys |-> GetActiveStates(domain_intents, tracker)]
    /\ UNCHANGED <<domain_intents, tracker, outsideFeaturize>>

NextFeaturize == UserMessage \/ GetActiveStatesCall

SpecFeaturize == InitFeaturize /\ [][NextFeaturize]_vars

(***************************************************************************)
(* SpecStore: an EvaluationStore is filled through add_to_store and        *)
(* serialised                                                              *)
(***************************************************************************)
InitStore ==
    /\ IdleExcept("Store")
    /\ eval_store = EmptyStore
    /\ serialised = NotSerialised

\* eval_store.add_to_store(k=v) and eval_store.add_to_store(k=[v])
AddToStoreCall ==
    /\ \E k \in DOMAIN EmptyStore :
           /\ Len(eval_store[k]) < MaxStoreLen
           /\ \E v \in StoreItems[k] :
                  \E arg \in StoreArguments(k, v) :
                      eval_store' = AddToStore(eval_store, [NoArguments EXCEPT ![k] = arg])
    /\ serialised' = NotSerialised
    /\ UNCHANGED outsideStore

\* eval_store.serialise()
SerialiseCall ==
    /\ LET pair == Serialise(eval_store)
       IN  serialised' = [done |-> TRUE, targets |-> pair[1], predictions |-> pair[2]]
    /\ UNCHANGED <<eval_store, outsideStore>>

NextStore == AddToStoreCall \/ SerialiseCall

SpecStore == InitStore /\ [][NextStore]_vars

(***************************************************************************)
(* SpecEvaluate: collect_story_predictions runs the stories through the    *)
(* processor, one event of one tracker at a time                           *)
(***************************************************************************)
InitEvaluate ==
    /\ IdleExcept("Evaluate")
    /\ \E f \in BOOLEAN, e \in BOOLEAN :
           evaluation = [NotStarted EXCEPT !.fail_on_prediction_errors = f, !.use_e2e = e]
    /\ story_eval_store = EmptyStore
    /\ tracker_eval_store = EmptyStore
    /\ partial_tracker = <<>>
    /\ failure = NoException

Running == failure = NoException /\ ~evaluation.finished

InStory == Running /\ evaluation.in_story /\ evaluation.story_events < MaxStoryEvents

\* what a _collect_..._predictions call leaves behind in _predict_tracker_actions:
\* its updates of the partial tracker, then either its exception or its store
\* merged into the store of the tracker; action_list and in_training_data
\* count the tracker_actions and those of them a memoization policy predicted
AfterCollect(c, actions) ==
    /\ partial_tracker' = partial_tracker \o c.updates
    /\ failure' = c.raised
    /\ IF c.raised = NoException
       THEN /\ tracker_eval_store' = MergeStore(tracker_eval_store, c.store)
            /\ evaluation' =
                   [evaluation EXCEPT
                       !.story_events = @ + 1,
                       !.action_list = @ + actions,
                       !.in_training_data =
                           IF actions = 1 /\ InTrainingData(c.policy) THEN @ + 1 ELSE @]
       ELSE UNCHANGED <<tracker_eval_store, evaluation>>
    /\ UNCHANGED <<story_eval_store, outsideEvaluate>>

\* the next tracker of completed_trackers: _predict_tracker_actions starts
StartStory ==
    /\ Running
    /\ ~evaluation.in_story
    /\ evaluation.stories < MaxStories
    /\ evaluation' = [evaluation EXCEPT !.stories = @ + 1, !.in_story = TRUE,
                                        !.story_events = 0]
    /\ tracker_eval_store' = EmptyStore
    /\ partial_tracker' = <<ACTION_LISTEN_NAME>>
    /\ UNCHANGED <<story_eval_store, failure, outsideEvaluate>>

\* the next event is an ActionExecuted
ActionExecutedEvent ==
    /\ InStory
    /\ \E event \in ActionExecutedEvents, first \in Predictions,
          again \in Predictions, rejected \in BOOLEAN :
           AfterCollect(CollectActionExecutedPredictions(event, first, again, rejected,
                            evaluation.fail_on_prediction_errors), 1)

\* the next event is a UserUttered
UserUtteredEvent ==
    /\ InStory
    /\ \E event \in UserUtteredEvents :
           IF evaluation.use_e2e
           THEN AfterCollect(CollectUserUtteredPredictions(event,
                                 evaluation.fail_on_prediction_errors), 0)
           ELSE /\ partial_tracker' = partial_tracker \o <<"user">>
                /\ evaluation' = [evaluation EXCEPT !.story_events = @ + 1]
                /\ UNCHANGED <<story_eval_store, tracker_eval_store, failure,
                               outsideEvaluate>>

\* the next event is neither
OtherEvent ==
    /\ InStory
    /\ partial_tracker' = partial_tracker \o <<"slot">>
    /\ evaluation' = [evaluation EXCEPT !.story_events = @ + 1]
    /\ UNCHANGED <<story_eval_store, tracker_eval_store, failure, outsideEvaluate>>

\* the events of the tracker are used up: its store goes into the store of
\* the stories, and the predicted tracker among the failed ones if its own
\* store has a mismatch (tracker_results keeps the store of each tracker)
EndStory ==
    /\ Running
    /\ evaluation.in_story
    /\ story_eval_store' = MergeStore(story_eval_store, tracker_eval_store)
    /\ evaluation' =
           [evaluation EXCEPT
               !.in_story = FALSE,
               !.tracker_results = Append(@, tracker_eval_store),
               !.failed =
                   IF HasPredictionTargetMismatch(tracker_eval_store)
                   THEN Append(@, [story |-> evaluation.stories,
                                   predicted_tracker |-> partial_tracker])
                   ELSE @,
               !.correct_dialogues =
                   @ \o <<IF HasPredictionTargetMismatch(tracker_eval_store)
                          THEN 0 ELSE 1>>]
    /\ UNCHANGED <<tracker_eval_store, partial_tracker, failure, outsideEvaluate>>

\* the trackers are used up: _in_training_data_fraction divides by
\* len(action_list)
FinishEvaluation ==
    /\ Running
    /\ ~evaluation.in_story
    /\ IF evaluation.action_list = 0
       THEN /\ failure' = Raise("ZeroDivisionError", FALSE, "in_training_data_fraction")
            /\ UNCHANGED evaluation
       ELSE /\ evaluation' =
                   [evaluation EXCEPT
                       !.finished = TRUE,
                       !.in_training_data_fraction =
                           Fraction(evaluation.in_training_data, evaluation.action_list)]
            /\ UNCHANGED failure
    /\ UNCHANGED <<story_eval_store, tracker_eval_store, partial_tracker,
                   outsideEvaluate>>

NextEvaluate ==
    \/ StartStory
    \/ ActionExecutedEvent
    \/ UserUtteredEvent
    \/ OtherEvent
    \/ EndStory
    \/ FinishEvaluation

SpecEvaluate == InitEvaluate /\ [][NextEvaluate]_vars

(***************************************************************************)
(* SpecReplay: the gold ActionExecuted events of a story are put through   *)
(* _collect_action_executed_predictions, Form events are put on the        *)
(* partial tracker in between                                              *)
(***************************************************************************)
InitReplay ==
    /\ IdleExcept("Replay")
    /\ replay_ensemble \in ReplayEnsembles
    /\ replay_fail \in BOOLEAN
    /\ replay_tracker = ReplayStart
    /\ collecting = NotCollecting

\* an event that is no ActionExecuted: partial_tracker.update(event) of a
\* Form event that starts or ends the form
UpdateForm ==
    /\ collecting.pc = "idle"
    /\ collecting.done < MaxReplayEvents
    /\ \E name \in {FormName, PythonNone} :
           /\ name # replay_tracker.form_name
           /\ replay_tracker' = ReplayUpdate(replay_tracker, FormEvent(name))
    /\ collecting' = [collecting EXCEPT !.done = @ + 1]
    /\ UNCHANGED <<replay_ensemble, replay_fail, outsideReplay>>

\* _collect_action_executed_predictions is entered with a gold event
BeginCollect ==
    /\ collecting.pc = "idle"
    /\ collecting.done < MaxReplayEvents
    /\ \E gold \in ReplayActions :
           collecting' = [NotCollecting EXCEPT !.pc = "predict", !.gold = gold,
                                               !.done = collecting.done]
    /\ UNCHANGED <<replay_ensemble, replay_fail, replay_tracker, outsideReplay>>

\* processor.predict_next_action(partial_tracker), the first call
PredictNextAction ==
    /\ collecting.pc = "predict"
    /\ \E p \in ReplayPredictions :
           collecting' =
               [collecting EXCEPT
                   !.predictions = Append(@, p),
                   !.log = Append(@, "predict"),
                   !.pc = IF RetriesAfterFormRejection(p.policy, p.action,
                                                        collecting.gold)
                          THEN "emulate" ELSE "record"]
    /\ UNCHANGED <<replay_ensemble, replay_fail, replay_tracker, outsideReplay>>

\* _emulate_form_rejection(processor, partial_tracker)
EmulateFormRejectionCall ==
    /\ collecting.pc = "emulate"
    /\ \E unhappy \in [1..Len(replay_ensemble) -> BOOLEAN] :
           /\ replay_tracker' =
                  EmulateFormRejection(replay_tracker, replay_ensemble, unhappy, 1)
           /\ collecting' = [collecting EXCEPT !.pc = "predict_again",
                                               !.unhappy = unhappy,
                                               !.log = Append(@, "emulate")]
    /\ UNCHANGED <<replay_ensemble, replay_fail, outsideReplay>>

\* processor.predict_next_action(partial_tracker), the second call
PredictAgain ==
    /\ collecting.pc = "predict_again"
    /\ \E p \in ReplayPredictions :
           collecting' = [collecting EXCEPT !.predictions = Append(@, p),
                                            !.log = Append(@, "predict"),
                                            !.pc = "record"]
    /\ UNCHANGED <<replay_ensemble, replay_fail, replay_tracker, outsideReplay>>

\* add_to_store and what follows it: the wrong or the original event goes on
\* the partial tracker, a mismatch raises when fail_on_prediction_errors
RecordPrediction ==
    /\ collecting.pc = "record"
    /\ LET gold == collecting.gold
           last == collecting.predictions[Len(collecting.predictions)]
           action_executed_eval_store ==
               AddToStore(EmptyStore,
                          [NoArguments EXCEPT !.action_predictions = Scalar(last.action),
                                              !.action_targets = Scalar(gold)])
           mismatch == HasPredictionTargetMismatch(action_executed_eval_store)
           exception == IF mismatch /\ replay_fail
                        THEN IF last.policy = PythonNone THEN "TypeError"
                             ELSE "ValueError"
                        ELSE "none"
       IN  /\ replay_tracker' =
                  ReplayUpdate(replay_tracker,
                               IF mismatch
                               THEN WronglyPredictedAction(gold, last.action)
                               ELSE ActionExecuted(gold))
           /\ collecting' =
                  [collecting EXCEPT
                      !.store = action_executed_eval_store,
                      !.log = Append(@, "record"),
                      !.exception = exception,
                      !.done = @ + 1,
                      !.pc = IF exception = "none" THEN "idle" ELSE "raised"]
    /\ UNCHANGED <<replay_ensemble, replay_fail, outsideReplay>>

NextReplay ==
    \/ UpdateForm
    \/ BeginCollect
    \/ PredictNextAction
    \/ EmulateFormRejectionCall
    \/ PredictAgain
    \/ RecordPrediction

SpecReplay == InitReplay /\ [][NextReplay]_vars

(***************************************************************************)
(* SpecSchema: the state schema of a constructed Domain is read            *)
(***************************************************************************)
\* the names index_of_state is asked for: every state of some domain, and
\* names that are states of none
StateNames ==
    UNION {Range(InputStates(d)) : d \in SchemaDomains}
        \cup {"intent_bye", "city", "slot_city", ""}

InitSchema ==
    /\ IdleExcept("Schema")
    /\ schema_domain \in SchemaDomains
    /\ state_lookup = NoLookup

\* schema_domain.index_of_state(state_name)
IndexOfStateCall ==
    /\ \E state_name \in StateNames :
           state_lookup' = [state_lookup EXCEPT
                               !.asked = TRUE,
                               !.state_name = state_name,
                               !.index = IndexOfState(schema_domain, state_name)]
    /\ UNCHANGED <<schema_domain, outsideSchema>>

\* schema_domain.num_states
NumStatesCall ==
    /\ state_lookup' = [state_lookup EXCEPT !.counted = TRUE,
                                            !.num_states = NumStates(schema_domain)]
    /\ UNCHANGED <<schema_domain, outsideSchema>>

NextSchema == IndexOfStateCall \/ NumStatesCall

SpecSchema == InitSchema /\ [][NextSchema]_vars

(***************************************************************************)
(* SpecWinner: one call of self.merge(other, override) on two fragments    *)
(***************************************************************************)
InitWinner ==
    /\ IdleExcept("Winner")
    /\ \E a \in FragmentDomains("A"), f \in {"B", "C"}, override \in BOOLEAN :
           \E b \in FragmentDomains(f) :
               merge_call = [self |-> a, other |-> b, override |-> override]
    /\ merge_result = NoObject

\* merge_result := self.merge(other, override)
MergeCall ==
    /\ ~merge_result.exists
    /\ LET m == Merge(merge_call.self, merge_call.other, merge_call.override)
       IN  merge_result' = [exists |-> TRUE, raised |-> ~m.returned.ok, d |-> m.returned]
    /\ UNCHANGED <<merge_call, outsideWinner>>

NextWinner == MergeCall

SpecWinner == InitWinner /\ [][NextWinner]_vars

(***************************************************************************)
(* SpecFingerprint: an ensemble is trained on trackers and its metadata    *)
(* is persisted                                                            *)
(***************************************************************************)
TrainingEventsOf ==
    {ActionExecuted(ACTION_LISTEN_NAME), ActionExecuted("utter_greet"), UserUttered,
     SlotSet("city", "rome"), SlotSet("city", "paris"), SlotSet("time", "now")}

TrainingEventCount ==
    IF training_trackers = <<>> THEN 0
    ELSE LET RECURSIVE Sum(_)
             Sum(k) == IF k = 0 THEN 0 ELSE Len(training_trackers[k]) + Sum(k - 1)
         IN  Sum(Len(training_trackers))

InitFingerprint ==
    /\ IdleExcept("Fingerprint")
    /\ training_trackers = <<>>
    /\ action_fingerprints = NoFingerprints

\* one more tracker among the training trackers
AddTrainingTracker ==
    /\ ~action_fingerprints.computed
    /\ Len(training_trackers) < MaxTrainingTrackers
    /\ training_trackers' = Append(training_trackers, <<>>)
    /\ UNCHANGED <<action_fingerprints, outsideFingerprint>>

\* one more event on the tracker that is being generated
AddTrainingEvent ==
    /\ ~action_fingerprints.computed
    /\ training_trackers # <<>>
    /\ TrainingEventCount < MaxTrainingEvents
    /\ \E event \in TrainingEventsOf :
           training_trackers' =
               [training_trackers EXCEPT ![Len(training_trackers)] = Append(@, event)]
    /\ UNCHANGED <<action_fingerprints, outsideFingerprint>>

\* _persist_metadata: the action_fingerprints entry of metadata.json
PersistMetadata ==
    /\ ~action_fingerprints.computed
    /\ action_fingerprints' \in
           CreateActionFingerprints(TrainingEventsFromTrackers(training_trackers))
    /\ UNCHANGED <<training_trackers, outsideFingerprint>>

NextFingerprint == AddTrainingTracker \/ AddTrainingEvent \/ PersistMetadata

SpecFingerprint == InitFingerprint /\ [][NextFingerprint]_vars

(***************************************************************************)
(* Properties of the arbitration                                           *)
(***************************************************************************)
\* a call has returned for the current tracker (of a non-empty ensemble)
Called == calls > 0 /\ Len(policies) > 0

RejectedIndex == IndexForAction(ServingActionNames, events[Len(events)].action_name)

\* what the list returned by policy i must look like when it is compared
ZeroedOutput(i) ==
    IF LastIsRejection(events)
    THEN [a \in 1..Len(raw[i]) |-> IF a - 1 = RejectedIndex THEN 0 ELSE raw[i][a]]
    ELSE raw[i]

Confidence(i) == SeqMax(ZeroedOutput(i))

KeyGreater(i, j) ==
    \/ Confidence(i) > Confidence(j)
    \/ Confidence(i) = Confidence(j) /\ policies[i].priority > policies[j].priority

\* w is the first policy whose (confidence, priority) is maximal
IsArbitrationWinner(w) ==
    /\ \A j \in 1..Len(policies) : ~KeyGreater(j, w)
    /\ \A j \in 1..(w - 1) : KeyGreater(w, j)

WinnerIdx == CHOOSE w \in 1..Len(policies) : IsArbitrationWinner(w)

IdentifierOf(i) == "policy_" \o ToString(i - 1) \o "_" \o policies[i].cls

WinnerPredictsListen == ZeroedOutput(WinnerIdx)[1] = Confidence(WinnerIdx)

IsMemoFamily(p) == IsInstance(p, MemoizationPolicyName)

HasFallback == \E i \in 1..Len(policies) : IsInstance(policies[i], FallbackPolicyName)

FirstFallback ==
    CHOOSE i \in 1..Len(policies) :
        /\ IsInstance(policies[i], FallbackPolicyName)
        /\ \A j \in 1..(i - 1) : ~IsInstance(policies[j], FallbackPolicyName)

OverrideCase ==
    /\ WinnerPredictsListen
    /\ LatestActionName(events) = ACTION_LISTEN_NAME
    /\ ~IsMemoFamily(policies[WinnerIdx])
    /\ HasFallback

\* C1: when the tracker's last event is the rejection of action X, the
\* returned distribution has probability 0 at X's index, whether or not the
\* fallback override replaced the winner's distribution.
C1_RejectedActionZero ==
    (Called /\ LastIsRejection(events)) => result[RejectedIndex + 1] = 0

\* C2: when the winner's top action is action_listen, the latest action is
\* action_listen, the winner is not of the memoization family and a
\* FallbackPolicy is in the ensemble, the call returns the fallback scores
\* and the identifier of the (first) fallback policy.
C2_FallbackOverride ==
    (Called /\ OverrideCase) =>
        /\ result = FallbackScores(ServingActionNames)
        /\ best_policy_name = IdentifierOf(FirstFallback)

C2_Witness ==
    /\ Called
    /\ OverrideCase
    /\ policies[WinnerIdx].cls = "KerasPolicy"
    /\ best_policy_name = IdentifierOf(FirstFallback)
    /\ best_policy_name # arbitration.best_policy_name
    /\ result # arbitration.result

\* C3: before the override rule the chosen policy is the first one, in
\* configured order, whose (max of zeroed distribution, priority) is
\* lexicographically maximal; its identifier is policy_<index>_<ClassName>,
\* which is also the returned identifier when the result is not replaced.
C3_WinnerSelection ==
    Called =>
        /\ \E w \in 1..Len(policies) : IsArbitrationWinner(w)
        /\ arbitration.best_policy_name = IdentifierOf(WinnerIdx)
        /\ arbitration.result = ZeroedOutput(WinnerIdx)
        /\ (result = arbitration.result =>
                best_policy_name = IdentifierOf(WinnerIdx))

\* an exact tie of confidence and priority, decided for the earlier policy
C3_Witness ==
    /\ Called
    /\ Len(policies) = 2
    /\ Confidence(1) = Confidence(2)
    /\ policies[1].priority = policies[2].priority
    /\ ZeroedOutput(1) # ZeroedOutput(2)
    /\ LastIsRejection(events)
    /\ raw[1] # ZeroedOutput(1)
    /\ arbitration.best_policy_name = IdentifierOf(1)
    /\ best_policy_name = IdentifierOf(1)

\* C4: if the winner is of the memoization family (MemoizationPolicy,
\* AugmentedMemoizationPolicy or a class derived from them), or its top action
\* is not action_listen, or the latest action is not action_listen, or no
\* FallbackPolicy is configured, the call returns the winner's distribution
\* and identifier.
C4_OverrideOnlyWhenAllHold ==
    (Called /\ ~OverrideCase) =>
        /\ result = ZeroedOutput(WinnerIdx)
        /\ best_policy_name = IdentifierOf(WinnerIdx)

\* C5: the rejection zeroing is done on a private copy: a call never changes
\* the probability list a policy holds internally.
C5_ZeroingOnPrivateCopy == [][held' = held]_vars

Computed(t) == objects[t].exists

SameSets(x, y) ==
    /\ Range(x.user_actions) = Range(y.user_actions)
    /\ Range(x.entities) = Range(y.entities)
    /\ Range(x.form_names) = Range(y.form_names)

\* C7: merge(A,B) and merge(B,A) both succeed with equal sets of actions,
\* entities and forms, or both raise: no pair of fragments makes one order
\* succeed and the other raise or yield another action set.
C7_MergeOrderIndependent ==
    (Computed("AB") /\ Computed("BA")) =>
        /\ objects["AB"].raised = objects["BA"].raised
        /\ ~objects["AB"].raised => SameSets(objects["AB"].d, objects["BA"].d)

\* C8: a merge leaves its operands unchanged: every Domain object that exists
\* before the call has the same user_actions, action_names and as_dict after.
C8_MergeLeavesOperandsUnchanged ==
    [][\A o \in ObjectIds : objects[o].exists => objects'[o] = objects[o]]_vars

\* the outcome of merge(merge(A,B),C) and of merge(A,merge(B,C)) is known
LeftDone == Computed("AB") /\ (objects["AB"].raised \/ Computed("AB_C"))
RightDone == Computed("BC") /\ (objects["BC"].raised \/ Computed("A_BC"))
LeftRaised == objects["AB"].raised \/ objects["AB_C"].raised
RightRaised == objects["BC"].raised \/ objects["A_BC"].raised

\* C9: merge(merge(A,B),C) equals merge(A,merge(B,C)) and merge(merge(A,B),B)
\* equals merge(A,B), compared by as_dict.
C9_MergeAssociativeIdempotent ==
    /\ (LeftDone /\ RightDone) =>
           /\ LeftRaised = RightRaised
           /\ ~LeftRaised => AsDict(objects["AB_C"].d) = AsDict(objects["A_BC"].d)
    /\ Computed("AB_B") =>
           /\ ~objects["AB_B"].raised
           /\ AsDict(objects["AB_B"].d) = AsDict(objects["AB"].d)

(***************************************************************************)
(* Properties of the specification comparison                              *)
(***************************************************************************)
Compared == comparison.status # "none"

\* C10: compare_with_specification returns True iff the persisted state list
\* equals the live input_states as a set; otherwise InvalidDomain lists as
\* removed exactly the persisted states missing from input_states and as
\* added exactly the input_states missing from the persisted list; comparing
\* with the specification the same domain persisted returns True.
C10_CompareWithSpecification ==
    Compared =>
        LET stored == Range(persisted.document.states)
            current == Range(InputStates(live))
        IN /\ comparison.status = "True" <=> stored = current
           /\ comparison.status = "InvalidDomain" <=> stored # current
           /\ comparison.status = "InvalidDomain" =>
                  /\ comparison.removed = stored \ current
                  /\ comparison.added = current \ stored
           /\ persisted.written_by = live => comparison.status = "True"

\* a changed domain is rejected with both lists non-empty
C10_Witness ==
    /\ Compared
    /\ comparison.status = "InvalidDomain"
    /\ comparison.removed # {}
    /\ comparison.added # {}
    /\ persisted.written_by # live

C10_WitnessRoundTrip ==
    /\ Compared
    /\ comparison.status = "True"
    /\ persisted.written_by = live
    /\ Len(persisted.document.states) > 4

(***************************************************************************)
(* Properties of persisting and loading                                    *)
(***************************************************************************)
LoadedFrom == model_dir.written_by

\* C11: a load of the directory an ensemble was persisted to, when the version
\* guard lets it pass, succeeds with as many policies as were persisted;
\* policy i is an instance of the class of the i-th persisted policy, was
\* read from the directory policy_<i>_<ClassName> persist wrote for it, and
\* has its priority.
C11_PersistLoadRoundTrip ==
    (loaded.status \notin {"none", "UnsupportedDialogueModelError"}) =>
        /\ loaded.status = "ok"
        /\ Len(loaded.policies) = Len(LoadedFrom)
        /\ \A i \in 1..Len(LoadedFrom) :
               /\ IsInstance(loaded.policies[i], LoadedFrom[i].cls)
               /\ loaded.read_dirs[i]
                      = "policy_" \o ToString(i - 1) \o "_" \o LoadedFrom[i].cls
               /\ loaded.policies[i].priority = LoadedFrom[i].priority

\* a second ensemble was persisted over a first with other classes and
\* priorities, and loading gives back the second
C11_Witness ==
    /\ loaded.status = "ok"
    /\ persists = 2
    /\ Len(LoadedFrom) = 2
    /\ Cardinality(model_dir.dirs) > 2
    /\ LoadedFrom[1].cls = "RecallPolicy"
    /\ LoadedFrom[1].priority # LoadedFrom[2].priority
    /\ loaded.policies = LoadedFrom

\* the place of each version in the order of releases
ReleaseRank(v) ==
    CASE v \in {Absent, "0.0.0"} -> 0
      [] v = "0.14.5" -> 1
      [] v = "1.9.6" -> 2
      [] v = "1.10.0a2" -> 3
      [] v = "1.10.0rc1" -> 4
      [] v \in {"1.10", "1.10.0"} -> 5
      [] v = "1.10.1" -> 6
      [] OTHER -> 7

RequiredVersion ==
    IF compatibility.version_to_check = "None" THEN MINIMUM_COMPATIBLE_VERSION
    ELSE compatibility.version_to_check

FoundVersion ==
    IF compatibility.metadata_rasa = Absent THEN "0.0.0" ELSE compatibility.metadata_rasa

\* C12: ensure_model_compatibility raises UnsupportedDialogueModelError exactly
\* when the recorded version (0.0.0 when absent) is strictly lower than the
\* minimum; it then carries the found and the required version.
C12_VersionGuard ==
    compatibility.done =>
        /\ compatibility.status = "UnsupportedDialogueModelError"
               <=> ReleaseRank(FoundVersion) < ReleaseRank(RequiredVersion)
        /\ compatibility.status \in {"UnsupportedDialogueModelError", "ok"}
        /\ compatibility.status = "UnsupportedDialogueModelError" =>
               /\ compatibility.model_version = FoundVersion
               /\ compatibility.minimal_compatible_version = RequiredVersion

\* 1.9.6 is rejected by a minimum of 1.10.0, though it is the greater string
C12_Witness ==
    /\ compatibility.done
    /\ compatibility.metadata_rasa = "1.9.6"
    /\ compatibility.version_to_check = "None"
    /\ compatibility.status = "UnsupportedDialogueModelError"

\* a model at exactly the minimum is accepted
C12_WitnessAccepted ==
    /\ compatibility.done
    /\ compatibility.metadata_rasa = "1.10"
    /\ compatibility.version_to_check = "1.10.0"
    /\ compatibility.status = "ok"

(***************************************************************************)
(* Properties of the policy configuration                                  *)
(***************************************************************************)
ListedPolicies ==
    IF policy_configuration.policies.list # <<>>
    THEN policy_configuration.policies.list
    ELSE policy_configuration.policy.list

UnresolvablePolicy(e) == e.name \in {"NoSuchPolicy"}

FeaturizerMisconfigured(e) ==
    \/ Len(e.featurizer) > 1
    \/ \E i \in 1..Len(e.featurizer) :
           \/ e.featurizer[i].name = "NoSuchFeaturizer"
           \/ Len(e.featurizer[i].state_featurizer) > 1
           \/ \E j \in 1..Len(e.featurizer[i].state_featurizer) :
                  e.featurizer[i].state_featurizer[j].name = "NoSuchStateFeaturizer"

InvalidConfiguration ==
    \/ ListedPolicies = <<>>
    \/ \E i \in 1..Len(ListedPolicies) :
           UnresolvablePolicy(ListedPolicies[i]) \/ FeaturizerMisconfigured(ListedPolicies[i])

\* C13: from_dict raises InvalidPolicyConfig for every configuration with no
\* policies listed, an unresolvable policy name or a misconfigured featurizer,
\* and returns one policy per entry in configuration order for the others.
C13_InvalidConfigRejected ==
    parsed # NotParsed =>
        /\ InvalidConfiguration => parsed.status = "InvalidPolicyConfig"
        /\ ~InvalidConfiguration =>
               /\ parsed.status = "ok"
               /\ Len(parsed.parsed_policies) = Len(ListedPolicies)
               /\ \A i \in 1..Len(ListedPolicies) :
                      EndsWith(ListedPolicies[i].name, parsed.parsed_policies[i].cls)

(***************************************************************************)
(* Properties of Domain construction                                       *)
(***************************************************************************)
Repeats(l) == Cardinality(Range(l)) # Len(l)

TriggersMissingAction(d) ==
    \E i \in 1..Len(d.intent_properties) :
        /\ d.intent_properties[i].triggers # NoTrigger
        /\ \A j \in 1..Len(d.action_names) :
               d.action_names[j] # d.intent_properties[i].triggers

Insane(d) ==
    Repeats(d.action_names) \/ Repeats(d.slots) \/ Repeats(d.entities)
        \/ TriggersMissingAction(d)

\* C14: the constructor raises InvalidDomain whenever action_names, the slot
\* names or the entities repeat a name or an intent triggers an action that
\* is not in action_names; a Domain that was constructed, also after any
\* add_requested_slot and add_knowledge_base_slots calls, has none of these.
C14_DomainSanity ==
    /\ (constructed.status # "none" /\ Insane(DomainConstructor(
            construction.intents, construction.entities, construction.slots,
            construction.templates, construction.action_names,
            construction.form_names).d)) => constructed.status = "InvalidDomain"
    /\ constructed.status = "ok" => ~Insane(constructed.d)

\* a Domain constructed with one knowledge base slot and a form got the
\* other slots added, none twice
C14_Witness ==
    /\ constructed.status = "ok"
    /\ construction.slots = <<SLOT_LAST_OBJECT>>
    /\ construction.intents # <<>>
    /\ construction.intents[1].triggers = "book"
    /\ Len(constructed.d.slots) = 4

\* C15: every key of the templates from_dict collects has at least one
\* variation, each with 'text' or 'custom'; a key with None or an empty list
\* makes it raise InvalidDomain.
C15_TemplatesHaveVariants ==
    collected.status # "none" =>
        /\ collected.status = "ok" =>
               \A k \in DOMAIN collected.templates :
                   /\ Len(collected.templates[k]) >= 1
                   /\ \A i \in 1..Len(collected.templates[k]) :
                          collected.templates[k][i].keys \cap {"text", "custom"} # {}
        /\ (\E k \in DOMAIN yml_templates :
                yml_templates[k].is_none \/ yml_templates[k].variations = <<>>)
               => collected.status = "InvalidDomain"

(***************************************************************************)
(* Properties of the featurization                                         *)
(***************************************************************************)
EntityStates == {k \in active_states.keys : SubSeq(k, 1, 7) = "entity_"}

Recognized ==
    {e \in EntityTypes : \E i \in 1..Len(tracker.latest_message.entities) :
        /\ tracker.latest_message.entities[i].has_entity
        /\ tracker.latest_message.entities[i].entity = e}

GreetConfig == domain_intents[1].props

\* C16: for a message with the intent greet, whose use_entities is True or a
\* list L and whose ignore_entities is I, the entity states emitted are those
\* of the recognized entity types that are in L (all when True) and not in I;
\* no entity of I is ever featurized.
C16_ExclusionWins ==
    (active_states.done /\ tracker.latest_message.intent_name = "greet") =>
        /\ \A e \in Range(GreetConfig.ignore_entities) :
               ("entity_" \o e) \notin active_states.keys
        /\ EntityStates =
               {"entity_" \o e : e \in
                   {x \in Recognized :
                       /\ (GreetConfig.use_all \/ x \in Range(GreetConfig.use_entities))
                       /\ x \notin Range(GreetConfig.ignore_entities)}}

\* city is both included and excluded for greet, the message names city and
\* time, and only time is featurized
C16_Witness ==
    /\ active_states.done
    /\ tracker.latest_message.intent_name = "greet"
    /\ ~GreetConfig.use_all
    /\ GreetConfig.use_entities = <<"city", "time">>
    /\ GreetConfig.ignore_entities = <<"city">>
    /\ Recognized = {"city", "time"}
    /\ EntityStates = {"entity_time"}

(***************************************************************************)
(* Properties of the evaluation store and of the evaluation engine         *)
(***************************************************************************)
\* the prediction list and the target list of every category are equally long
PairwiseSameLength(store) ==
    /\ Len(store.action_predictions) = Len(store.action_targets)
    /\ Len(store.intent_predictions) = Len(store.intent_targets)
    /\ Len(store.entity_predictions) = Len(store.entity_targets)

\* C17: whatever events the evaluation engine has put through add_to_store
\* and merge_store (action events, and in end-to-end mode user utterances,
\* those without a gold intent, without a predicted intent or with entities
\* on one side only among them), the store of the tracker and the store of
\* the stories hold as many predictions as targets in every category.
C17_PairwiseSameLength ==
    /\ PairwiseSameLength(tracker_eval_store)
    /\ PairwiseSameLength(story_eval_store)

\* how many targets, and how many predictions, the serialised store holds
TargetCount ==
    Len(eval_store.action_targets) + Len(eval_store.intent_targets)
        + Len(eval_store.entity_targets)

PredictionCount ==
    Len(eval_store.action_predictions) + Len(eval_store.intent_predictions)
        + Len(eval_store.entity_predictions)

\* the category position i of a serialised list belongs to, the list being
\* made of a actions, n intents and e entities, and of padding after them
CategoryAt(a, n, e, i) ==
    IF i <= a THEN "action"
    ELSE IF i <= a + n THEN "intent"
    ELSE IF i <= a + n + e THEN "entity"
    ELSE "padding"

\* out is the actions, the intents and the entities in markdown, in this
\* order and each in its own order, and after them nothing but "None"
PaddedFrom(out, action_list, intent_list, entity_list) ==
    LET a == Len(action_list)
        n == Len(intent_list)
        e == Len(entity_list)
    IN  /\ Len(out) >= a + n + e
        /\ \A i \in 1..Len(out) :
               out[i] = CASE CategoryAt(a, n, e, i) = "action" -> action_list[i]
                          [] CategoryAt(a, n, e, i) = "intent" -> intent_list[i - a]
                          [] CategoryAt(a, n, e, i) = "entity" ->
                                 GenerateEntityMd(entity_list[i - a - n].text,
                                                  entity_list[i - a - n])
                          [] OTHER -> "None"

\* C18: serialise returns targets and predictions of the same length, whatever
\* lists of the store are empty; the longer list is returned as it is, the
\* shorter one is the original elements in their order followed by "None".
C18_SerialiseSameLength ==
    serialised.done =>
        /\ Len(serialised.targets) = Len(serialised.predictions)
        /\ Len(serialised.targets) =
               IF TargetCount > PredictionCount THEN TargetCount ELSE PredictionCount
        /\ PaddedFrom(serialised.targets, eval_store.action_targets,
                      eval_store.intent_targets, eval_store.entity_targets)
        /\ PaddedFrom(serialised.predictions, eval_store.action_predictions,
                      eval_store.intent_predictions, eval_store.entity_predictions)

\* a store with two actions, an intent and an entity on the target side and a
\* single predicted entity is serialised: three positions are padded
C18_Witness ==
    /\ serialised.done
    /\ Len(eval_store.action_targets) = 2
    /\ Len(eval_store.intent_targets) = 1
    /\ Len(eval_store.entity_targets) = 1
    /\ PredictionCount = 1
    /\ Len(eval_store.entity_predictions) = 1
    /\ Len(serialised.predictions) = 4
    /\ serialised.predictions[4] = "None"

\* a store with no target at all and a predicted intent that is None
C18_WitnessEmptyTargets ==
    /\ serialised.done
    /\ TargetCount = 0
    /\ eval_store.intent_predictions = <<PythonNone>>
    /\ serialised.targets = <<"None">>
    /\ serialised.predictions = <<PythonNone>>

\* C19: in what serialise returns, position i of the targets and position i
\* of the predictions are of the same category (two actions, two intents or
\* two entities) or one of them is the padding, also when one category has
\* more predictions than targets or more targets than predictions.
C19_PaddedPerCategory ==
    serialised.done =>
        \A i \in 1..Len(serialised.targets) :
            LET target == CategoryAt(Len(eval_store.action_targets),
                                     Len(eval_store.intent_targets),
                                     Len(eval_store.entity_targets), i)
                prediction == CategoryAt(Len(eval_store.action_predictions),
                                         Len(eval_store.intent_predictions),
                                         Len(eval_store.entity_predictions), i)
            IN  target = prediction \/ "padding" \in {target, prediction}

\* C20: when fail_on_prediction_errors is false no mismatch of an action, an
\* intent or the entities raises, and the evaluation goes on; when it is true
\* the first mismatch raises a ValueError that carries the conversation as a
\* story, whatever policy the processor names for the prediction, no policy
\* among them.
C20_MismatchEscalation ==
    failure.during = "mismatch" =>
        /\ evaluation.fail_on_prediction_errors
        /\ failure.exception = "ValueError"
        /\ failure.story_in_message

(***************************************************************************)
(* Properties of the replay of gold actions                                *)
(***************************************************************************)
\* the call under way, or the last one, has recorded its prediction
Recorded ==
    Len(collecting.log) > 0 /\ collecting.log[Len(collecting.log)] = "record"

\* the first prediction of the call differs from the gold action and comes
\* from a policy whose identifier names the form policy
FirstWrongByForm ==
    /\ Len(collecting.predictions) > 0
    /\ collecting.predictions[1].action # collecting.gold
    /\ collecting.predictions[1].policy # PythonNone
    /\ Contains(collecting.predictions[1].policy, "FormPolicy")

\* C21: for a gold ActionExecuted event the processor is asked once, and a
\* second time exactly when the first prediction is wrong and its policy
\* identifier names the form policy; the second prediction comes after the
\* emulated form rejection and before anything is recorded; one pair of
\* prediction and target is recorded, and its prediction is the last one made.
C21_FormRejectionRetry ==
    /\ ~Recorded => collecting.store = EmptyStore
    /\ Recorded =>
           /\ collecting.log = IF FirstWrongByForm
                               THEN <<"predict", "emulate", "predict", "record">>
                               ELSE <<"predict", "record">>
           /\ Len(collecting.predictions) = IF FirstWrongByForm THEN 2 ELSE 1
           /\ collecting.store.action_targets = <<collecting.gold>>
           /\ collecting.store.action_predictions =
                  <<collecting.predictions[Len(collecting.predictions)].action>>

\* a wrong prediction of the form policy was followed by a second prediction,
\* which is another action and is the one recorded
C21_Witness ==
    /\ Recorded
    /\ FirstWrongByForm
    /\ collecting.predictions[2].action # collecting.predictions[1].action
    /\ collecting.store.action_predictions = <<collecting.predictions[2].action>>
    /\ Len(collecting.store.action_targets) = 1

(***************************************************************************)
(* Properties of the state schema                                          *)
(***************************************************************************)
\* C22: for a constructed Domain, num_states is the length of input_states;
\* index_of_state answers an integer from 0 to num_states - 1 for a name of
\* input_states and None for any other name; no name is twice in
\* input_states, so the state at position i has index i.
C22_StateIndexing ==
    LET states == InputStates(schema_domain)
    IN  /\ Cardinality(Range(states)) = Len(states)
        /\ state_lookup.counted => state_lookup.num_states = Len(states)
        /\ state_lookup.asked =>
               IF \E i \in 1..Len(states) : states[i] = state_lookup.state_name
               THEN /\ state_lookup.index.found
                    /\ state_lookup.index.index \in 0..(Len(states) - 1)
                    /\ states[state_lookup.index.index + 1] = state_lookup.state_name
               ELSE ~state_lookup.index.found

\* the last state of a Domain with intents, entities, slots and a form was
\* looked up after the states were counted
C22_Witness ==
    /\ state_lookup.asked
    /\ state_lookup.counted
    /\ state_lookup.num_states > 5
    /\ state_lookup.state_name = "active_form_book"
    /\ state_lookup.index = [found |-> TRUE, index |-> state_lookup.num_states - 1]

\* a name that is no state was looked up
C22_WitnessNone ==
    /\ state_lookup.asked
    /\ state_lookup.state_name = "slot_city"
    /\ ~state_lookup.index.found

\* C23: when compare_with_specification returns True, the persisted list of
\* state names is input_states of the live Domain, name by name, so that
\* every state keeps its index; a persisted list with the same names in
\* another order is not accepted.
C23_SchemaCompatibilityExact ==
    (Compared /\ comparison.status = "True") =>
        persisted.document.states = InputStates(live)

(***************************************************************************)
(* Properties of the merge winner                                          *)
(***************************************************************************)
\* the Domain whose values a merge takes for what both domains define
Winner == IF merge_call.override THEN merge_call.other ELSE merge_call.self

Loser == IF merge_call.override THEN merge_call.self ELSE merge_call.other

\* the entry of name n in a list of named entries (intents, slots)
Entry(l, n) == CHOOSE e \in Range(l) : e.name = n

Names(l) == {l[i].name : i \in 1..Len(l)}

\* merged holds every entry of the winner as it is, and the entries of the
\* loser under the names the winner does not define
WinnerTakes(merged, winner, loser) ==
    /\ Names(merged) = Names(winner) \cup Names(loser)
    /\ \A n \in Names(winner) : Entry(merged, n) = Entry(winner, n)
    /\ \A n \in Names(loser) \ Names(winner) : Entry(merged, n) = Entry(loser, n)

\* C24: self.merge(other, override) takes every intent, response and slot
\* that both domains define, and store_entities_as_slots and session_config,
\* from self when override is False and from other when it is True; what
\* only one domain defines is kept.
C24_MergeWinner ==
    (merge_result.exists /\ ~merge_result.raised) =>
        /\ merge_result.d.session_config = Winner.session_config
        /\ merge_result.d.store_entities_as_slots = Winner.store_entities_as_slots
        /\ WinnerTakes(merge_result.d.intent_properties, Winner.intent_properties,
                       Loser.intent_properties)
        /\ WinnerTakes(merge_result.d.slots, Winner.slots, Loser.slots)
        /\ DOMAIN merge_result.d.templates =
               DOMAIN Winner.templates \cup DOMAIN Loser.templates
        /\ \A k \in DOMAIN Winner.templates :
               merge_result.d.templates[k] = Winner.templates[k]

(***************************************************************************)
(* C25: the persisted fingerprint of an action name lists, each once,      *)
(* exactly the slots some training tracker sets after an execution of that *)
(* action with no other ActionExecuted in between; an action never         *)
(* followed by a SlotSet has an empty list or no entry.                    *)
(***************************************************************************)
TrainedActionNames == {ACTION_LISTEN_NAME, "utter_greet"}

\* the slots set right after an execution of action a in some tracker
SlotsSetAfter(a) ==
    {training_trackers[t][j].key :
        <<t, j>> \in {p \in (1..Len(training_trackers)) \X (1..MaxTrainingEvents + 1) :
            /\ p[2] <= Len(training_trackers[p[1]])
            /\ training_trackers[p[1]][p[2]].type = "slot"
            /\ \E i \in 1..(p[2] - 1) :
                   /\ training_trackers[p[1]][i] = ActionExecuted(a)
                   /\ \A m \in (i + 1)..(p[2] - 1) :
                          training_trackers[p[1]][m].type # "action"}}

C25_ActionFingerprint ==
    action_fingerprints.computed =>
        \A a \in TrainedActionNames :
            IF ~action_fingerprints.is_none /\ a \in DOMAIN action_fingerprints.fingerprints
            THEN LET slots == action_fingerprints.fingerprints[a].slots
                 IN  /\ Range(slots) = SlotsSetAfter(a)
                     /\ Len(slots) = Cardinality(SlotsSetAfter(a))
            ELSE SlotsSetAfter(a) = {}

\* an action followed by two SlotSet events of one slot and one of another
C25_Witness ==
    /\ action_fingerprints.computed
    /\ \E a \in TrainedActionNames :
           /\ a \in DOMAIN action_fingerprints.fingerprints
           /\ Len(action_fingerprints.fingerprints[a].slots) = 2
           /\ TrainingEventCount = MaxTrainingEvents

\* an executed action that no event follows has no entry
C25_WitnessNoEntry ==
    /\ action_fingerprints.computed
    /\ ~action_fingerprints.is_none
    /\ \E a \in TrainedActionNames :
           /\ a \notin DOMAIN action_fingerprints.fingerprints
           /\ \E t \in 1..Len(training_trackers) :
                  ActionExecuted(a) \in Range(training_trackers[t])

(***************************************************************************)
(* C26: load checks the version guard before it resolves or restores any   *)
(* policy: for a model below the guard no policy class is resolved, no     *)
(* policy load is invoked and no ensemble is constructed; for an accepted  *)
(* model each restored policy is validated (not None, an instance of the   *)
(* class its metadata entry names) before the next policy is restored.     *)
(***************************************************************************)
BelowGuard == VersionLess(model_dir.metadata.rasa, MINIMUM_COMPATIBLE_VERSION)

StepsOf(op) == {j \in 1..Len(loaded.steps) : loaded.steps[j].op = op}

\* the policy the load of step j restored
RestoredAt(j) ==
    LET policy_cls == PolicyFromModulePath(
                          model_dir.metadata.policy_names[loaded.steps[j].index + 1])
    IN  [cls |-> policy_cls,
         policy |-> PolicyLoad(model_dir.dirs, policy_cls,
                               LoadDirName(loaded.steps[j].index, policy_cls))]

C26_LoadOrdering ==
    loaded.status # "none" =>
        /\ loaded.steps[1] = Step("ensure_model_compatibility", -1)
        /\ BelowGuard =>
               /\ loaded.status = "UnsupportedDialogueModelError"
               /\ StepsOf("policy_from_module_path") = {}
               /\ StepsOf("load") = {}
               /\ StepsOf("ensemble_cls") = {}
               /\ loaded.policies = <<>>
        /\ \A j \in StepsOf("load") :
               /\ j < Len(loaded.steps)
               /\ loaded.steps[j + 1] = Step("_ensure_loaded_policy", loaded.steps[j].index)
               /\ j + 1 < Len(loaded.steps) =>
                      /\ RestoredAt(j).policy # NonePolicy
                      /\ IsInstance(RestoredAt(j).policy, RestoredAt(j).cls)
        /\ \A j \in StepsOf("ensemble_cls") : j = Len(loaded.steps) /\ loaded.status = "ok"

\* a model below the guard was loaded although its policies could be restored
C26_Witness ==
    /\ loaded.status = "UnsupportedDialogueModelError"
    /\ BelowGuard
    /\ Len(model_dir.metadata.policy_names) = MaxPolicies
    /\ ~LoadPolicies(model_dir, MaxPolicies).failed

\* an accepted model whose second policy is restored after the first is validated
C26_WitnessAccepted ==
    /\ loaded.status = "ok"
    /\ Cardinality(StepsOf("load")) = MaxPolicies

(***************************************************************************)
(* C27: a conversation's replayed tracker is in failed_stories if and only *)
(* if its own store has a prediction/target mismatch, failed_stories keeps *)
(* the corpus order, and each sequence of the aggregate store is the       *)
(* concatenation of the conversations' sequences in corpus order.          *)
(***************************************************************************)
RECURSIVE ConcatResults(_, _)
\* sequence k of the stores of the first n conversations, one after the other
ConcatResults(k, n) ==
    IF n = 0 THEN <<>>
    ELSE ConcatResults(k, n - 1) \o evaluation.tracker_results[n][k]

FailedStories == {evaluation.failed[i].story : i \in 1..Len(evaluation.failed)}

C27_FailedStories ==
    LET n == Len(evaluation.tracker_results)
    IN  /\ FailedStories =
               {i \in 1..n : HasPredictionTargetMismatch(evaluation.tracker_results[i])}
        /\ \A i, j \in 1..Len(evaluation.failed) :
               i < j => evaluation.failed[i].story < evaluation.failed[j].story
        /\ \A k \in DOMAIN story_eval_store :
               story_eval_store[k] = ConcatResults(k, n)

\* two conversations with predictions, the first failed and the second not
C27_Witness ==
    /\ Len(evaluation.tracker_results) = MaxStories
    /\ FailedStories = {1}
    /\ \A i \in 1..MaxStories : evaluation.tracker_results[i].action_targets # <<>>
    /\ evaluation.tracker_results[1] # evaluation.tracker_results[2]

(***************************************************************************)
(* C28: after _collect_action_executed_predictions has processed a gold    *)
(* ActionExecuted event, the latest action name of the partial tracker is  *)
(* the gold action name whether or not the prediction matched: a mismatch  *)
(* appends a WronglyPredictedAction carrying the gold action, a match the  *)
(* original event.                                                         *)
(***************************************************************************)
LastReplayed == replay_tracker.events[Len(replay_tracker.events)]

C28_ReplaysGoldHistory ==
    [][(collecting.pc = "record" /\ collecting'.pc # "record") =>
           /\ replay_tracker'.latest_action_name = collecting.gold
           /\ Len(replay_tracker'.events) = Len(replay_tracker.events) + 1
           /\ LastReplayed' =
                  IF HasPredictionTargetMismatch(collecting'.store)
                  THEN [type |-> "wrong_action", action_name |-> collecting.gold]
                  ELSE ActionExecuted(collecting.gold)]_vars

\* a wrong prediction was recorded and the next gold event is being predicted
C28_Witness ==
    /\ collecting.pc = "predict"
    /\ collecting.done = 1
    /\ LastReplayed.type = "wrong_action"
    /\ replay_tracker.latest_action_name \in StoryActions

(***************************************************************************)
(* C29: _emulate_form_rejection leaves the event list of the partial       *)
(* tracker unchanged when no form is active, when the ensemble has no      *)
(* FormPolicy, or when the form policy reports the rejected state as not   *)
(* covered (the rejected flag is then reset to False); otherwise it        *)
(* appends exactly one ActionExecutionRejected of the active form and      *)
(* nothing else.                                                           *)
(***************************************************************************)
FormPolicies == {k \in 1..Len(replay_ensemble) : replay_ensemble[k] = FormPolicyName}

\* some form policy of the ensemble answered that the rejected state is covered
Covered(unhappy) == \E k \in FormPolicies : unhappy[k]

C29_EmulateFormRejectionFrame ==
    [][(collecting.pc = "emulate" /\ collecting'.pc = "predict_again") =>
           IF ~Truthy(replay_tracker.form_name) \/ FormPolicies = {}
           THEN replay_tracker' = replay_tracker
           ELSE IF ~Covered(collecting'.unhappy)
           THEN /\ replay_tracker'.events = replay_tracker.events
                /\ ~replay_tracker'.form_rejected
           ELSE replay_tracker'.events =
                    Append(replay_tracker.events,
                           ActionExecutionRejected(replay_tracker.form_name))]_vars

\* two form policies answered that the state is covered: two events are appended
C29_TwoRejections ==
    /\ collecting.pc = "predict_again"
    /\ Len(replay_tracker.events) >= 3
    /\ replay_tracker.events[Len(replay_tracker.events)].type = "rejected"
    /\ replay_tracker.events[Len(replay_tracker.events) - 1].type = "rejected"

\* the same frame for the ensembles with at most one form policy
EmulateFormRejectionFrame_OneFormPolicy ==
    [][(Cardinality(FormPolicies) <= 1 /\ collecting.pc = "emulate"
            /\ collecting'.pc = "predict_again") =>
           IF ~Truthy(replay_tracker.form_name) \/ FormPolicies = {}
           THEN replay_tracker' = replay_tracker
           ELSE IF ~Covered(collecting'.unhappy)
           THEN /\ replay_tracker'.events = replay_tracker.events
                /\ ~replay_tracker'.form_rejected
           ELSE /\ replay_tracker'.events =
                       Append(replay_tracker.events,
                              ActionExecutionRejected(replay_tracker.form_name))
                /\ replay_tracker'.form_rejected]_vars

(***************************************************************************)
(* C30: for every corpus, an empty one and conversations without an        *)
(* ActionExecuted after their first event included, the evaluation         *)
(* terminates normally and returns as in_training_data_fraction the number *)
(* of evaluated actions won by a memoization policy divided by the number  *)
(* of evaluated actions, a value between 0 and 1.                          *)
(***************************************************************************)
C30_InTrainingDataFraction ==
    /\ failure.during # "in_training_data_fraction"
    /\ evaluation.finished =>
           /\ evaluation.in_training_data_fraction =
                  Fraction(evaluation.in_training_data, evaluation.action_list)
           /\ evaluation.action_list > 0
           /\ evaluation.in_training_data \in 0..evaluation.action_list

\* the corpus is used up without an evaluated action and the division raises
C30_EmptyActionList ==
    /\ failure.exception = "ZeroDivisionError"
    /\ evaluation.action_list = 0
    /\ evaluation.stories = 1
    /\ Len(partial_tracker) > 1

\* the fraction of a corpus with evaluated actions
FractionReturned ==
    evaluation.finished =>
        /\ evaluation.in_training_data_fraction =
               Fraction(evaluation.in_training_data, evaluation.action_list)
        /\ evaluation.action_list > 0
        /\ evaluation.in_training_data \in 0..evaluation.action_list

====
